---- MODULE Spec2Model ----
(***************************************************************************)
(* Knowledge-graph builder of rust-relations-explorer: incremental build   *)
(* with the on-disk cache (.knowledge_cache.json), the synthetic           *)
(* file-level module items, the relationship analysis passes and the path  *)
(* resolver they use.                                                      *)
(*                                                                         *)
(* Representation.                                                         *)
(*  - A path is the tuple of its components; every discovered file has the *)
(*    extension "rs" (file_walker keeps only *.rs), so the last component  *)
(*    is the file stem: <<"src","m","mod">> is src/m/mod.rs.               *)
(*  - A source text is a sequence of lines, each line being what the       *)
(*    parser's and the call analysis' regexes see of it: a fn / struct /   *)
(*    enum definition, a use statement, a call, a blank line.  `bytes` is  *)
(*    the line's length in bytes, newline included.                        *)
(*  - An import path or a call chain is the sequence of its "::"-separated *)
(*    non-empty segments (what split("::").filter(non-empty) returns).     *)
(*  - Option<Arc<str>> alias: "" is None.                                  *)
(*  - strength is kept in tenths (10 = 1.0, 8 = 0.8, 7 = 0.7, 5 = 0.5).    *)
(*  - The iteration order of the HashMap graph.files is unspecified: it is *)
(*    a permutation `ord` of the files, chosen anew by every build.        *)
(***************************************************************************)
EXTENDS Integers, Sequences, FiniteSets, TLC

\* ------------------------------------------------------------------ bounds
MaxBuilds == 2
MaxEdits == 1
MaxTime == 2

\* ------------------------------------------------------------- source tree
PathLib == <<"src", "lib">>
PathMod == <<"src", "m", "mod">>
PathFoo == <<"src", "m", "foo">>
PathMLib == <<"src", "m", "lib">>
PathBaz == <<"src", "m1", "m2", "baz">>
PathM1Mod == <<"src", "m1", "mod">>
PathM3Mod == <<"src", "m3", "mod">>
PathQux == <<"src", "m3", "qux">>

\* The order in which the walker yields files (sorted by name).
WalkOrder == <<PathLib, PathFoo, PathMLib, PathMod, PathBaz, PathM1Mod, PathM3Mod, PathQux>>

\* The files the source tree may hold.
Paths == {PathFoo, PathMod}

\* The files of the trees on which one build is analysed in full.
TreePaths == {PathLib, PathFoo, PathMLib, PathMod}

\* The files of the trees with nested modules, on which paths are resolved.
DeepPaths == {PathBaz, PathM1Mod, PathM3Mod, PathQux}

NoAlias == ""

FnLine(vis, name, n) ==
    [k |-> "fn", vis |-> vis, name |-> name, path |-> <<>>, alias |-> NoAlias, bytes |-> n]

StructLine(vis, name, n) ==
    [k |-> "struct", vis |-> vis, name |-> name, path |-> <<>>, alias |-> NoAlias, bytes |-> n]

EnumLine(vis, name, n) ==
    [k |-> "enum", vis |-> vis, name |-> name, path |-> <<>>, alias |-> NoAlias, bytes |-> n]

UseLine(path, alias, n) ==
    [k |-> "use", vis |-> "", name |-> "", path |-> path, alias |-> alias, bytes |-> n]

\* A call `chain(..)`; pre is what stands right before the chain ("" when it
\* starts the statement).
CallLine(chain, n) ==
    [k |-> "call", vis |-> "", name |-> "", path |-> chain, alias |-> NoAlias, bytes |-> n,
     pre |-> ""]

\* A negated call `!chain(..)`.
NotCallLine(chain, n) ==
    [k |-> "call", vis |-> "", name |-> "", path |-> chain, alias |-> NoAlias, bytes |-> n,
     pre |-> "!"]

\* A call `chain(..)` with text before it on its line; widths are the UTF-8
\* byte lengths of the characters of that text, in order (the blank before
\* the chain included).
WideCallLine(chain, widths, n) ==
    [k |-> "call", vis |-> "", name |-> "", path |-> chain, alias |-> NoAlias, bytes |-> n,
     pre |-> "", widths |-> widths]

BlankLine ==
    [k |-> "blank", vis |-> "", name |-> "", path |-> <<>>, alias |-> NoAlias, bytes |-> 1]

\* "pub fn foo() {}\nuse foo as F;\nuse F;\n"
TextFoo ==
    << FnLine("pub", "foo", 16), UseLine(<<"foo">>, "F", 14), UseLine(<<"F">>, NoAlias, 7) >>

\* "pub fn bar() {}\nuse bar as F;\nuse F;\n"  (same length as TextFoo)
TextBar ==
    << FnLine("pub", "bar", 16), UseLine(<<"bar">>, "F", 14), UseLine(<<"F">>, NoAlias, 7) >>

\* "\npub(crate) struct foo;\nfn run() {}\nfoo();\nm::foo::bar();\nuse crate::m::foo;\n"
TextRun ==
    << BlankLine, StructLine("pub(crate)", "foo", 23), FnLine("", "run", 12),
       CallLine(<<"foo">>, 7), CallLine(<<"m", "foo", "bar">>, 15),
       UseLine(<<"crate", "m", "foo">>, NoAlias, 19) >>

\* "pub fn run() {}\n!bar();\n!m::foo::bar();\n"
TextNot ==
    << FnLine("pub", "run", 16), NotCallLine(<<"bar">>, 8),
       NotCallLine(<<"m", "foo", "bar">>, 16) >>

\* The texts the incremental builds are run on.
BuildTexts == <<TextFoo, TextBar, TextRun>>

\* "pub fn baz() {}\nuse crate::m3::qux;\nuse super::super::m3::qux;\n"
TextBaz ==
    << FnLine("pub", "baz", 16), UseLine(<<"crate", "m3", "qux">>, NoAlias, 20),
       UseLine(<<"super", "super", "m3", "qux">>, NoAlias, 27) >>

\* "pub fn qux() {}\nuse m3::qux as Q;\n"
TextQux ==
    << FnLine("pub", "qux", 16), UseLine(<<"m3", "qux">>, "Q", 18) >>

\* "pub fn baz() {}\nuse crate::m3 as _;\n"
TextUnderscore ==
    << FnLine("pub", "baz", 16), UseLine(<<"crate", "m3">>, "_", 20) >>

\* "pub fn run() {}\n\u65e5\u672c\u8a9e foo();\n": three 3-byte characters and a blank
\* before the call.
TextWide ==
    << FnLine("pub", "run", 16), WideCallLine(<<"foo">>, <<3, 3, 3, 1>>, 17) >>

\* "pub fn run() {}\na\u65e5\u672c foo();\n": one ASCII letter, two 3-byte characters
\* and a blank before the call.
TextNarrow ==
    << FnLine("pub", "run", 16), WideCallLine(<<"foo">>, <<1, 3, 3, 1>>, 15) >>

\* "pub struct P(u8);\nfn run() {}\nm::P(1);\ncrate::m::foo();\n": a tuple struct
\* built through a qualified path, and a qualified call.
TextCtor ==
    << StructLine("pub", "P", 18), FnLine("", "run", 12), CallLine(<<"m", "P">>, 9),
       CallLine(<<"crate", "m", "foo">>, 16) >>

Texts ==
    BuildTexts \o <<TextNot, TextUnderscore, TextBaz, TextQux, TextWide, TextNarrow, TextCtor>>

TextIds == 1..Len(BuildTexts)

TreeTextIds == 1..(Len(BuildTexts) + 1)

DeepTextIds == (Len(BuildTexts) + 2)..(Len(BuildTexts) + 4)

\* TextFoo, the two texts with multi-byte characters and TextCtor.
WideTextIds == {1, Len(BuildTexts) + 5, Len(BuildTexts) + 6, Len(BuildTexts) + 7}

RECURSIVE SumBytes(_)
SumBytes(lines) ==
    IF lines = <<>> THEN 0 ELSE Head(lines).bytes + SumBytes(Tail(lines))

\* std::fs::Metadata::len of a file holding text t.
TextLen(t) == SumBytes(Texts[t])

\* ------------------------------------------------------------------- paths
RECURSIVE JoinWith(_, _)
JoinWith(segs, sep) ==
    IF segs = <<>> THEN ""
    ELSE IF Len(segs) = 1 THEN segs[1]
    ELSE segs[1] \o sep \o JoinWith(Tail(segs), sep)

\* Path::display of a discovered file.
Render(p) == JoinWith(p, "/") \o ".rs"

FileStem(p) == p[Len(p)]

FileName(p) == FileStem(p) \o ".rs"

\* Path::parent
ParentDir(p) == SubSeq(p, 1, Len(p) - 1)

IsModOrLib(p) == FileName(p) = "mod.rs" \/ FileName(p) = "lib.rs"

\* Index of the first directory component named "src" (0 when there is none).
\* The last component is the file name "<stem>.rs", which is never "src".
SrcIdx(p) ==
    LET hits == {i \in 1..(Len(p) - 1) : p[i] = "src"}
    IN  IF hits = {} THEN 0 ELSE CHOOSE i \in hits : \A j \in hits : i <= j

\* Module path segments of a file relative to src/.
ModuleSegmentsOf(p) ==
    IF SrcIdx(p) = 0 THEN <<>>
    ELSE SubSeq(p, SrcIdx(p) + 1, Len(p) - 1)
         \o (IF IsModOrLib(p) THEN <<>> ELSE <<FileStem(p)>>)

\* ------------------------------------------------------------------ parser
ParseVisibility(vis) ==
    IF vis = "" THEN "Private"
    ELSE IF vis = "pub" THEN "Public"
    ELSE IF vis = "pub(crate)" THEN "PubCrate"
    ELSE IF vis = "pub(super)" THEN "PubSuper"
    ELSE "PubIn"

\* line_number_for(content, m.start()): the patterns start with ^\s*, so a
\* match begins at the first line of the run of blank lines before the item.
RECURSIVE MatchLine(_, _)
MatchLine(lines, i) ==
    IF i > 1 /\ lines[i - 1].k = "blank" THEN MatchLine(lines, i - 1) ELSE i

\* ItemType: the variant, and is_inline for Module (FALSE for the others,
\* which carry no such field).
ItemType(tag, is_inline) == [tag |-> tag, is_inline |-> is_inline]

ItemTypeOf(k) ==
    ItemType(IF k = "fn" THEN "Function" ELSE IF k = "struct" THEN "Struct" ELSE "Enum",
             FALSE)

ItemOfLine(lines, i, p) ==
    [ id |-> lines[i].k \o ":" \o lines[i].name \o ":" \o ToString(MatchLine(lines, i)),
      item_type |-> ItemTypeOf(lines[i].k),
      name |-> lines[i].name,
      visibility |-> ParseVisibility(lines[i].vis),
      file |-> p,
      line_start |-> MatchLine(lines, i),
      line_end |-> MatchLine(lines, i) ]

RECURSIVE ItemsOfKind(_, _, _, _)
ItemsOfKind(lines, i, k, p) ==
    IF i > Len(lines) THEN <<>>
    ELSE (IF lines[i].k = k THEN <<ItemOfLine(lines, i, p)>> ELSE <<>>)
         \o ItemsOfKind(lines, i + 1, k, p)

\* All fn matches, then all struct matches, then all enum matches.
ExtractItems(lines, p) ==
    ItemsOfKind(lines, 1, "fn", p) \o ItemsOfKind(lines, 1, "struct", p)
        \o ItemsOfKind(lines, 1, "enum", p)

RECURSIVE ExtractImports(_)
ExtractImports(lines) ==
    IF lines = <<>> THEN <<>>
    ELSE (IF Head(lines).k = "use"
          THEN <<[path |-> Head(lines).path, alias |-> Head(lines).alias]>>
          ELSE <<>>)
         \o ExtractImports(Tail(lines))

\* (variant) the metrics count the fn matches only.
ParseFileFnCount(lines, p) ==
    [ path |-> p,
      items |-> ExtractItems(lines, p),
      imports |-> ExtractImports(lines),
      metrics |-> [item_count |-> Len(ItemsOfKind(lines, 1, "fn", p)),
                   import_count |-> Len(ExtractImports(lines))] ]

\* RustParser::parse_file: the node; its only return is Ok(node).
ParseFile(lines, p) ==
    [ path |-> p,
      items |-> ExtractItems(lines, p),
      imports |-> ExtractImports(lines),
      metrics |-> [item_count |-> Len(ExtractItems(lines, p)),
                   import_count |-> Len(ExtractImports(lines))] ]

\* ------------------------------------------------------------- filesystem
NoFile == [present |-> FALSE, text |-> 0, mtime |-> 0, fault |-> "none"]

FileOf(t, m) == [present |-> TRUE, text |-> t, mtime |-> m, fault |-> "none"]

Faults == {"stat", "read"}

\* file_walker::rust_files_with_options: the *.rs files present under the root.
Discover(tree) == SelectSeq(WalkOrder, LAMBDA p : p \in DOMAIN tree /\ tree[p].present)

SeqToSet(s) == {s[i] : i \in 1..Len(s)}

\* fs::metadata(p): (mtime, len), each 0 when the stat fails.
StatMeta(tree, p) ==
    IF tree[p].fault = "stat" THEN [mtime |-> 0, len |-> 0]
    ELSE [mtime |-> tree[p].mtime, len |-> TextLen(tree[p].text)]

\* fs::read_to_string(p) succeeds.
CanRead(tree, p) == p \in DOMAIN tree /\ tree[p].present /\ tree[p].fault # "read"

\* ------------------------------------------------------------------- cache
EmptyMap == <<>>

EmptyCache == [entries |-> EmptyMap]

CacheAbsent == [status |-> "absent", entries |-> EmptyMap]

CacheCorrupt == [status |-> "corrupt", entries |-> EmptyMap]

CacheFile(c) == [status |-> "valid", entries |-> c.entries]

\* cache::load_cache(root).unwrap_or_default(): a missing, unreadable or
\* malformed file gives None, hence the default (empty) cache.
LoadCache(file) ==
    IF file.status = "valid" THEN [entries |-> file.entries] ELSE EmptyCache

\* Variant of InitialCacheState that loads the cache file in every mode; C8
\* does not hold of a builder that uses it.
InitialCacheStateLoaded(m, file) == LoadCache(file)

\* The cache the build starts from.
InitialCacheState(m, file) ==
    IF m = "Use" THEN LoadCache(file) ELSE EmptyCache

\* Variant of Prune that keeps every entry; C5 does not hold of a builder that
\* uses it.
PruneNothing(m, c, files) == c

\* cache_state.entries.retain(|k, _| present.contains(k)), in Use mode only.
Prune(m, c, files) ==
    IF m = "Use"
    THEN [entries |-> [k \in (DOMAIN c.entries) \cap SeqToSet(files) |-> c.entries[k]]]
    ELSE c

\* cache::save_cache writes the whole cache state (when the write succeeds).
SaveCache(file, c, ok) == IF ok THEN CacheFile(c) ELSE file

\* cache::clear_cache
ClearCacheFile == CacheAbsent

\* ----------------------------------------------------------------- builder
FileId(p) == "file:" \o Render(p)

ContainsEdge(from, to) ==
    [ from_item |-> from, to_item |-> to, rtype |-> "Contains",
      sub |-> "file_contains", strength |-> 10, context |-> "auto" ]

\* Variant of ContainsEdges that skips the last item; C2 does not hold of a
\* builder that uses it.
ContainsEdgesButLast(node) ==
    [i \in 1..(Len(node.items) - 2) |->
        ContainsEdge(FileId(node.path), node.items[i + 1].id)]

\* file_contains edges from the file item to every item but the first.
ContainsEdges(node) ==
    [i \in 1..(Len(node.items) - 1) |->
        ContainsEdge(FileId(node.path), node.items[i + 1].id)]

\* The synthetic file-level module item.
FileItem(p) ==
    [ id |-> FileId(p),
      item_type |-> ItemType("Module", FALSE),
      name |-> FileStem(p),
      visibility |-> "PubCrate",
      file |-> p,
      line_start |-> 1,
      line_end |-> 1 ]

\* Variant of WithFileItem that appends the file item instead of prepending
\* it; C1 does not hold of a builder that uses it.
WithFileItemLast(node) ==
    [node EXCEPT !.items = node.items \o <<FileItem(node.path)>>,
                 !.metrics.item_count = Len(node.items) + 1]

\* Prepend the file item and recount the items.
WithFileItem(node) ==
    [node EXCEPT !.items = <<FileItem(node.path)>> \o node.items,
                 !.metrics.item_count = Len(node.items) + 1]

\* What one parse task returns for a stale file.
ParsedNode(tree, p) == WithFileItem(ParseFile(Texts[tree[p].text], p))

\* Variant of IsReused that compares the modification time only; C4 does not
\* hold of a builder that uses it.
IsReusedByMtime(m, c, f, meta) ==
    m = "Use" /\ f \in DOMAIN c.entries /\ c.entries[f].meta.mtime = meta.mtime

\* A cached entry is reused iff the mode is Use and its metadata match.
IsReused(m, c, f, meta) ==
    m = "Use" /\ f \in DOMAIN c.entries /\ c.entries[f].meta = meta

ReusedFiles(m, c, tree, files) ==
    SelectSeq(files, LAMBDA f : IsReused(m, c, f, StatMeta(tree, f)))

ToParse(m, c, tree, files) ==
    SelectSeq(files, LAMBDA f : ~IsReused(m, c, f, StatMeta(tree, f)))

RECURSIVE Flatten(_)
Flatten(ss) == IF ss = <<>> THEN <<>> ELSE Head(ss) \o Flatten(Tail(ss))

EmptyGraph ==
    [ files |-> EmptyMap, relationships |-> <<>>, module_parent |-> EmptyMap,
      module_children |-> EmptyMap, module_segments |-> EmptyMap,
      import_segments |-> EmptyMap ]

\* Interned segments and alias of one import: an empty alias or "_" is None.
ImportSegmentsOf(imp) ==
    [ segments |-> imp.path,
      alias |-> IF imp.alias # "" /\ imp.alias # "_" THEN imp.alias ELSE NoAlias ]

\* The graph after the merge of reused and parsed nodes and the precomputation
\* of module_segments and import_segments, before the relationship analysis.
MergedGraph(c, tree, reusedSeq, parseSeq) ==
    LET nodeOf(p) == IF p \in SeqToSet(reusedSeq) THEN c.entries[p].node
                     ELSE ParsedNode(tree, p)
        all == SeqToSet(reusedSeq) \cup SeqToSet(parseSeq)
        fmap == [p \in all |-> nodeOf(p)]
    IN  [ files |-> fmap,
          relationships |->
              Flatten([i \in 1..Len(reusedSeq) |-> ContainsEdges(nodeOf(reusedSeq[i]))])
              \o Flatten([i \in 1..Len(parseSeq) |-> ContainsEdges(nodeOf(parseSeq[i]))]),
          module_parent |-> EmptyMap,
          module_children |-> EmptyMap,
          module_segments |-> [p \in all |-> ModuleSegmentsOf(p)],
          import_segments |->
              [p \in {q \in all : fmap[q].imports # <<>>} |->
                  [i \in 1..Len(fmap[p].imports) |-> ImportSegmentsOf(fmap[p].imports[i])]] ]

\* cache_state after the entries of the parsed files are inserted.
UpdatedCache(c, tree, parseSeq) ==
    [entries |->
        [p \in (DOMAIN c.entries) \cup SeqToSet(parseSeq) |->
            IF p \in SeqToSet(parseSeq)
            THEN [meta |-> StatMeta(tree, p), node |-> ParsedNode(tree, p)]
            ELSE c.entries[p]]]

\* ---------------------------------------------------------------- resolver
Max(S) == CHOOSE x \in S : \A y \in S : y <= x

Last(s) == s[Len(s)]

\* The items of all files, with the file that owns each, in iteration order.
OrderedItems(g, ord) ==
    Flatten([i \in 1..Len(ord) |->
        [j \in 1..Len(g.files[ord[i]].items) |->
            [item |-> g.files[ord[i]].items[j], owner |-> ord[i], idx |-> j]]])

\* name -> ids of the items of that name (every item contributes).
NameIndex(g, ord) ==
    LET all == OrderedItems(g, ord)
    IN  [n \in {all[i].item.name : i \in 1..Len(all)} |->
            LET hits == SelectSeq(all, LAMBDA e : e.item.name = n)
            IN  [i \in 1..Len(hits) |-> hits[i].item.id]]

\* file stem -> id of the first item of a file of that stem (last insert wins).
ModuleIndex(g, ord) ==
    LET have == {i \in 1..Len(ord) : g.files[ord[i]].items # <<>>}
    IN  [st \in {FileStem(ord[i]) : i \in have} |->
            g.files[ord[Max({i \in have : FileStem(ord[i]) = st})]].items[1].id]

\* item id -> owning file (last insert wins).
ItemToFile(g, ord) ==
    LET all == OrderedItems(g, ord)
    IN  [id \in {all[i].item.id : i \in 1..Len(all)} |->
            all[Max({i \in 1..Len(all) : all[i].item.id = id})].owner]

Binding(kind, key, segments) == [kind |-> kind, key |-> key, segments |-> segments]

\* What one precomputed (segments, alias) pair binds.
BindingOfSegments(e) ==
    IF e.segments = <<>> THEN <<>>
    ELSE IF e.alias # NoAlias THEN <<Binding("alias", e.alias, e.segments)>>
    ELSE <<Binding("expose", Last(e.segments), e.segments)>>

\* What one raw import binds (graph without precomputed import segments).
BindingOfImport(imp) ==
    IF imp.alias # NoAlias
    THEN IF imp.alias # "_" /\ imp.path # <<>>
         THEN <<Binding("alias", imp.alias, imp.path)>> ELSE <<>>
    ELSE IF imp.path # <<>>
         THEN <<Binding("expose", Last(imp.path), imp.path)>> ELSE <<>>

\* serde_json::to_string_pretty(self): the serialized fields of the graph;
\* import_segments and string_pool are #[serde(skip)].
SaveJson(g) ==
    [ files |-> g.files, relationships |-> g.relationships,
      module_parent |-> g.module_parent, module_children |-> g.module_children,
      module_segments |-> g.module_segments ]

\* serde_json::from_str: the serialized fields as written, the skipped ones
\* at their default.
LoadJson(json) ==
    [ files |-> json.files, relationships |-> json.relationships,
      module_parent |-> json.module_parent, module_children |-> json.module_children,
      module_segments |-> json.module_segments, import_segments |-> EmptyMap ]

\* The bindings of one file, from import_segments when the graph has them.
FileBindings(g, p) ==
    IF p \in DOMAIN g.import_segments
    THEN Flatten([i \in 1..Len(g.import_segments[p]) |->
                    BindingOfSegments(g.import_segments[p][i])])
    ELSE Flatten([i \in 1..Len(g.files[p].imports) |->
                    BindingOfImport(g.files[p].imports[i])])

\* key -> segments of the last binding of that key.
LastWins(bs) ==
    [k \in {bs[i].key : i \in 1..Len(bs)} |->
        bs[Max({i \in 1..Len(bs) : bs[i].key = k})].segments]

\* alias -> segments: one global map filled file by file in iteration order.
AliasMap(g, ord) ==
    LastWins(SelectSeq(Flatten([i \in 1..Len(ord) |-> FileBindings(g, ord[i])]),
                       LAMBDA b : b.kind = "alias"))

\* file -> (exposed last segment -> segments), with an entry for the files
\* that expose something.
ExposureMap(g, ord) ==
    LET exposes(p) == SelectSeq(FileBindings(g, p), LAMBDA b : b.kind = "expose")
    IN  [p \in {q \in SeqToSet(ord) : exposes(q) # <<>>} |-> LastWins(exposes(p))]

ResolverNew(g, ord) ==
    [ name_index |-> NameIndex(g, ord),
      module_index |-> ModuleIndex(g, ord),
      item_to_file |-> ItemToFile(g, ord),
      alias_map |-> AliasMap(g, ord),
      exposure_map |-> ExposureMap(g, ord) ]

ModuleSegmentsFor(g, p) ==
    IF p \in DOMAIN g.module_segments THEN g.module_segments[p] ELSE ModuleSegmentsOf(p)

\* Variant of StripAnchors that consumes one anchor only; C16 does not hold of
\* a resolver that uses it.
StripFirstAnchor(parts, scope) ==
    IF parts = <<>> THEN [parts |-> parts, scope |-> scope]
    ELSE IF Head(parts) = "crate" THEN [parts |-> Tail(parts), scope |-> <<>>]
    ELSE IF Head(parts) = "self" THEN [parts |-> Tail(parts), scope |-> scope]
    ELSE IF Head(parts) = "super"
         THEN [parts |-> Tail(parts),
               scope |-> IF scope = <<>> THEN scope ELSE SubSeq(scope, 1, Len(scope) - 1)]
    ELSE [parts |-> parts, scope |-> scope]

\* The anchor prefix loop: crate clears the scope, self keeps it, super pops.
RECURSIVE StripAnchors(_, _)
StripAnchors(parts, scope) ==
    IF parts = <<>> THEN [parts |-> parts, scope |-> scope]
    ELSE IF Head(parts) = "crate" THEN StripAnchors(Tail(parts), <<>>)
    ELSE IF Head(parts) = "self" THEN StripAnchors(Tail(parts), scope)
    ELSE IF Head(parts) = "super"
         THEN StripAnchors(Tail(parts),
                  IF scope = <<>> THEN scope ELSE SubSeq(scope, 1, Len(scope) - 1))
    ELSE [parts |-> parts, scope |-> scope]

\* Replace the first segment by its mapping, if the map has one.
Splice(map, parts) ==
    IF parts # <<>> /\ Head(parts) \in DOMAIN map
    THEN map[Head(parts)] \o Tail(parts) ELSE parts

IdsNamed(node, name) ==
    LET hits == SelectSeq(node.items, LAMBDA it : it.name = name)
    IN  [i \in 1..Len(hits) |-> hits[i].id]

None == [some |-> FALSE, ids |-> <<>>]

Some(ids) == [some |-> TRUE, ids |-> ids]

\* Walk the module segments from dir: <<TRUE, dir>> or <<FALSE, _>>.
RECURSIVE WalkModules(_, _, _)
WalkModules(g, dir, segs) ==
    IF segs = <<>> THEN [ok |-> TRUE, dir |-> dir]
    ELSE LET d == Append(dir, Head(segs))
         IN  IF Append(d, "mod") \in DOMAIN g.files \/ Append(d, "lib") \in DOMAIN g.files
             THEN WalkModules(g, d, Tail(segs))
             ELSE IF d \in DOMAIN g.files
             THEN WalkModules(g, d, Tail(segs))
             ELSE [ok |-> FALSE, dir |-> dir]

\* The last segment inside dir: dir/last.rs, then dir/mod.rs, then dir/lib.rs.
ResolveLast(g, res, dir, last) ==
    LET fileRs == Append(dir, last)
        inFile == IF fileRs \in DOMAIN g.files THEN IdsNamed(g.files[fileRs], last) ELSE <<>>
        modPath == Append(dir, "mod")
        libPath == Append(dir, "lib")
        inMod == IF modPath \in DOMAIN g.files THEN IdsNamed(g.files[modPath], last) ELSE <<>>
        inLib == IF libPath \in DOMAIN g.files THEN IdsNamed(g.files[libPath], last) ELSE <<>>
    IN  IF inFile # <<>> THEN Some(inFile)
        ELSE IF fileRs \in DOMAIN g.files /\ last \in DOMAIN res.module_index
             THEN Some(<<res.module_index[last]>>)
        ELSE IF inMod # <<>> THEN Some(inMod)
        ELSE IF inLib # <<>> THEN Some(inLib)
        ELSE None

ResolveScopedChain(g, res, from_file, scope, parts) ==
    IF parts = <<>> \/ SrcIdx(from_file) = 0 THEN None
    ELSE LET base == SubSeq(from_file, 1, SrcIdx(from_file))
             scopeDirs == IF ~IsModOrLib(from_file) /\ scope # <<>>
                          THEN SubSeq(scope, 1, Len(scope) - 1) ELSE scope
             w == WalkModules(g, base \o scopeDirs, SubSeq(parts, 1, Len(parts) - 1))
         IN  IF w.ok THEN ResolveLast(g, res, w.dir, Last(parts)) ELSE None

\* The fallbacks after the scoped chain walk found nothing: the items named
\* like the last segment; the file module of that stem; with two segments or
\* more, the items named like the last segment when the first segment, or
\* else the head of the scope, is a file stem.
ResolveFallback(res, scope, parts) ==
    IF Last(parts) \in DOMAIN res.name_index THEN res.name_index[Last(parts)]
    ELSE IF Last(parts) \in DOMAIN res.module_index THEN <<res.module_index[Last(parts)]>>
    ELSE IF /\ Len(parts) >= 2
            /\ Head(parts) \in DOMAIN res.module_index
            /\ Last(parts) \in DOMAIN res.name_index
         THEN res.name_index[Last(parts)]
    ELSE IF /\ Len(parts) >= 2
            /\ scope # <<>>
            /\ Head(scope) \in DOMAIN res.module_index
            /\ Last(parts) \in DOMAIN res.name_index
         THEN res.name_index[Last(parts)]
    ELSE <<>>

ResolveImport(g, res, from_file, raw) ==
    LET a == StripAnchors(raw, ModuleSegmentsFor(g, from_file))
        exposed == IF from_file \in DOMAIN res.exposure_map
                   THEN res.exposure_map[from_file] ELSE EmptyMap
        parts == Splice(exposed, Splice(res.alias_map, a.parts))
        chain == ResolveScopedChain(g, res, from_file, a.scope, parts)
    IN  IF raw = <<>> \/ a.parts = <<>> THEN <<>>
        ELSE IF chain.some THEN chain.ids
        ELSE ResolveFallback(res, a.scope, parts)

\* Variant of IsFileLevelModule that takes every item of a mod.rs / lib.rs for
\* a module; C13 does not hold of an analysis that uses it.
IsItemOfModuleFile(g, res, id) ==
    id \in DOMAIN res.item_to_file /\ IsModOrLib(res.item_to_file[id])

IsFileLevelModule(g, res, id) ==
    /\ id \in DOMAIN res.item_to_file
    /\ res.item_to_file[id] \in DOMAIN g.files
    /\ g.files[res.item_to_file[id]].items # <<>>
    /\ g.files[res.item_to_file[id]].items[1].id = id

\* ---------------------------------------------------- relationship analysis
\* Variant of ModuleParentOf in which dir/lib.rs wins over dir/mod.rs; C12
\* does not hold of an analysis that uses it.
ModuleParentLibFirst(g, path) ==
    LET parentDir == ParentDir(path)
        dir == IF IsModOrLib(path) THEN ParentDir(parentDir) ELSE parentDir
        p1 == Append(dir, "lib")
        p2 == Append(dir, "mod")
    IN  IF IsModOrLib(path) /\ parentDir = <<>> THEN <<>>
        ELSE IF p1 \in DOMAIN g.files THEN <<p1>>
        ELSE IF p2 \in DOMAIN g.files THEN <<p2>>
        ELSE <<>>

\* The parent module file of `path`: <<parent>> or <<>>.
\* mod.rs / lib.rs look in the grandparent directory, other files in their own;
\* dir/mod.rs wins over dir/lib.rs.
ModuleParentOf(g, path) ==
    LET parentDir == ParentDir(path)
        hasDir == IF IsModOrLib(path) THEN parentDir # <<>> ELSE TRUE
        dir == IF IsModOrLib(path) THEN ParentDir(parentDir) ELSE parentDir
        p1 == Append(dir, "mod")
        p2 == Append(dir, "lib")
        known(q) == q \in DOMAIN g.files /\ g.files[q].items # <<>>
        cand == IF ~hasDir THEN <<>>
                ELSE IF known(p1) THEN <<p1>>
                ELSE IF known(p2) THEN <<p2>>
                ELSE <<>>
    IN  IF g.files[path].items = <<>> THEN <<>>
        ELSE IF cand # <<>> /\ g.files[cand[1]].items[1].id # g.files[path].items[1].id
        THEN cand ELSE <<>>

\* Variant of ModuleEdge that points from the child to the parent; C11 does
\* not hold of an analysis that uses it.
ModuleEdgeReversed(g, parent, child) ==
    [ from_item |-> g.files[child].items[1].id, to_item |-> g.files[parent].items[1].id,
      rtype |-> "Contains", sub |-> "module_contains", strength |-> 10, context |-> "fs" ]

ModuleEdge(g, parent, child) ==
    [ from_item |-> g.files[parent].items[1].id, to_item |-> g.files[child].items[1].id,
      rtype |-> "Contains", sub |-> "module_contains", strength |-> 10, context |-> "fs" ]

\* id_to_path.get(parent_id): the file whose first item has the parent's id.
PathOfFileId(g, id) == CHOOSE q \in DOMAIN g.files : g.files[q].items # <<>> /\ g.files[q].items[1].id = id

AnalyzeModuleHierarchy(g, ord) ==
    LET withParent == SelectSeq(ord, LAMBDA p : ModuleParentOf(g, p) # <<>>)
        parentPath(p) == PathOfFileId(g, g.files[ModuleParentOf(g, p)[1]].items[1].id)
    IN  [g EXCEPT
            !.relationships = g.relationships \o
                [i \in 1..Len(withParent) |->
                    ModuleEdge(g, ModuleParentOf(g, withParent[i])[1], withParent[i])],
            !.module_parent = [p \in SeqToSet(withParent) |-> parentPath(p)],
            !.module_children =
                [pp \in {parentPath(p) : p \in SeqToSet(withParent)} |->
                    SelectSeq(withParent, LAMBDA p : parentPath(p) = pp)] ]

\* Variant of UsesEdge whose target is the import path as written instead of
\* the resolved id; C3 does not hold of an analysis that uses it.
UsesEdgeUnresolved(g, res, from, to, imp) ==
    [ from_item |-> from, to_item |-> JoinWith(imp.path, "::"), rtype |-> "Uses",
      sub |-> "import-item", strength |-> 10, context |-> JoinWith(imp.path, "::") ]

UsesEdge(g, res, from, to, imp) ==
    [ from_item |-> from, to_item |-> to, rtype |-> "Uses",
      sub |-> IF IsFileLevelModule(g, res, to) THEN "import-module" ELSE "import-item",
      strength |-> IF IsFileLevelModule(g, res, to) THEN 8 ELSE 10,
      context |-> JoinWith(imp.path, "::") ]

\* The Uses edges one file produces: one per import and resolved target
\* other than the file's own id.
FileUses(g, res, path) ==
    LET file == g.files[path]
        ofImport(imp) ==
            LET targets == SelectSeq(ResolveImport(g, res, path, imp.path),
                                     LAMBDA to : to # file.items[1].id)
            IN  [i \in 1..Len(targets) |-> UsesEdge(g, res, file.items[1].id, targets[i], imp)]
    IN  IF file.items = <<>> THEN <<>>
        ELSE Flatten([i \in 1..Len(file.imports) |-> ofImport(file.imports[i])])

AnalyzeImportUses(g, ord) ==
    LET res == ResolverNew(g, ord)
    IN  [g EXCEPT !.relationships =
            g.relationships \o Flatten([i \in 1..Len(ord) |-> FileUses(g, res, ord[i])])]

\* name -> ids of the Function items of that name.
FuncIndex(g, ord) ==
    LET all == SelectSeq(OrderedItems(g, ord), LAMBDA e : e.item.item_type.tag = "Function")
    IN  [n \in {all[i].item.name : i \in 1..Len(all)} |->
            LET hits == SelectSeq(all, LAMBDA e : e.item.name = n)
            IN  [i \in 1..Len(hits) |-> hits[i].item.id]]

CallsEdge(from, to, callType, context) ==
    [ from_item |-> from, to_item |-> to, rtype |-> "Calls", sub |-> callType,
      strength |-> IF callType = "path" THEN 7 ELSE 5, context |-> context ]

\* (variant) no seen_local: every edge is kept.
DedupNothing(edges, seen) == edges

\* seen_local: keep the first edge to every target.
RECURSIVE DedupByTarget(_, _)
DedupByTarget(edges, seen) ==
    IF edges = <<>> THEN <<>>
    ELSE IF Head(edges).to_item \in seen THEN DedupByTarget(Tail(edges), seen)
    ELSE <<Head(edges)>> \o DedupByTarget(Tail(edges), seen \cup {Head(edges).to_item})

\* Targets of a qualified chain: the resolver's, else the functions named
\* like the last segment.
PathCallTargets(g, res, funcs, path, chain) ==
    LET targets == ResolveImport(g, res, path, chain)
    IN  IF targets # <<>> THEN targets
        ELSE IF Last(chain) \in DOMAIN funcs THEN funcs[Last(chain)]
        ELSE <<>>

\* The matches of simple_call_re in a text, in order: the name before "(" and
\* what precedes it.  A definition `fn name(` is a match preceded by "fn ";
\* the last segment of a chain is a match preceded by "::".
RECURSIVE SimpleSites(_)
SimpleSites(lines) ==
    IF lines = <<>> THEN <<>>
    ELSE LET l == Head(lines)
         IN  (IF l.k = "fn" THEN <<[name |-> l.name, pre |-> "fn "]>>
              ELSE IF l.k = "call"
              THEN <<[name |-> Last(l.path),
                      pre |-> IF Len(l.path) >= 2 THEN "::" ELSE l.pre]>>
              ELSE <<>>)
             \o SimpleSites(Tail(lines))

RECURSIVE SumWidths(_)
SumWidths(widths) ==
    IF widths = <<>> THEN 0 ELSE Head(widths) + SumWidths(Tail(widths))

\* The byte offsets, from the start of the line, at which a character begins
\* or the text before the match ends.
CharBoundaries(widths) == {SumWidths(SubSeq(widths, 1, k)) : k \in 0..Len(widths)}

\* &content[start.saturating_sub(8)..start] for the single-identifier match of
\* a line: start is a character boundary; the slice panics when start - 8 is
\* not.  Lines without widths are ASCII, where every offset is a boundary.
PrefixSlicePanics(l) ==
    /\ l.k = "call"
    /\ Len(l.path) = 1
    /\ "widths" \in DOMAIN l
    /\ SumWidths(l.widths) >= 8
    /\ (SumWidths(l.widths) - 8) \notin CharBoundaries(l.widths)

\* The task of one file in the calls pass panics: the file is read and one of
\* its matches has an ill-defined prefix slice.
FileCallsPanics(g, tree, path) ==
    /\ g.files[path].items # <<>>
    /\ CanRead(tree, path)
    /\ \E i \in 1..Len(Texts[tree[path].text]) : PrefixSlicePanics(Texts[tree[path].text][i])

\* rayon propagates the panic of any task to the caller.
AnalyzePanics(g, tree) == \E path \in DOMAIN g.files : FileCallsPanics(g, tree, path)

\* The filter of the simple-name pass: a definition keyword in the 8 bytes
\* before the match, or "!" as the nearest non-blank character before it.
Excluded(pre) == pre \in {"fn ", "struct ", "enum ", "trait ", "!"}

\* The Calls edges one file produces from its current content: first the
\* qualified chains (unfiltered), then the simple names that pass the filter.
FileCalls(g, res, funcs, tree, path) ==
    LET file == g.files[path]
        lines == Texts[tree[path].text]
        calls == SelectSeq(SimpleSites(lines), LAMBDA c : ~Excluded(c.pre))
        chains == SelectSeq(lines, LAMBDA l : l.k = "call" /\ Len(l.path) >= 2)
        ofChain(l) ==
            LET targets == PathCallTargets(g, res, funcs, path, l.path)
            IN  [i \in 1..Len(targets) |->
                    CallsEdge(file.items[1].id, targets[i], "path", JoinWith(l.path, "::"))]
        ofName(c) ==
            LET targets == IF c.name \in DOMAIN funcs THEN funcs[c.name] ELSE <<>>
            IN  [i \in 1..Len(targets) |->
                    CallsEdge(file.items[1].id, targets[i], "heuristic", c.name)]
    IN  IF file.items = <<>> \/ ~CanRead(tree, path) THEN <<>>
        ELSE DedupByTarget(
                Flatten([i \in 1..Len(chains) |-> ofChain(chains[i])])
                \o Flatten([i \in 1..Len(calls) |-> ofName(calls[i])]), {})

AnalyzeCallsHeuristic(g, ord, tree) ==
    LET res == ResolverNew(g, ord)
        funcs == FuncIndex(g, ord)
    IN  [g EXCEPT !.relationships =
            g.relationships
            \o Flatten([i \in 1..Len(ord) |-> FileCalls(g, res, funcs, tree, ord[i])])]

AnalyzeRelationships(g, ord, tree) ==
    AnalyzeCallsHeuristic(AnalyzeImportUses(AnalyzeModuleHierarchy(g, ord), ord), ord, tree)

\* The import-uses stage with its per-file tasks combined in the order sched.
UsesOfTasks(g, res, sched) ==
    Flatten([i \in 1..Len(sched) |-> FileUses(g, res, sched[i])])

\* (variant) the tasks share one seen set keyed by the target.
CallsOfTasksSharedSeen(g, res, funcs, tree, sched) ==
    DedupByTarget(Flatten([i \in 1..Len(sched) |-> FileCalls(g, res, funcs, tree, sched[i])]),
                  {})

\* The calls stage with its per-file tasks combined in the order sched; every
\* task has its own seen_local.
CallsOfTasks(g, res, funcs, tree, sched) ==
    Flatten([i \in 1..Len(sched) |-> FileCalls(g, res, funcs, tree, sched[i])])

\* analyze_relationships with the resolver and the function index collected
\* in the order ord, and the results of the tasks of the two parallel stages
\* reduced in the orders su and sc.
AnalyzeScheduled(g, ord, su, sc, tree) ==
    LET g1 == AnalyzeModuleHierarchy(g, ord)
        g2 == [g1 EXCEPT !.relationships = @ \o UsesOfTasks(g1, ResolverNew(g1, ord), su)]
    IN  [g2 EXCEPT !.relationships =
            @ \o CallsOfTasks(g2, ResolverNew(g2, ord), FuncIndex(g2, ord), tree, sc)]

\* The iteration orders of a map with these keys.
Orders(S) ==
    {s \in [1..Cardinality(S) -> S] : \A i, j \in 1..Cardinality(S) : i # j => s[i] # s[j]}

\* ------------------------------------------------------------------- state
VARIABLES
    fs,            \* the source tree: path -> file (text, mtime, fault) or NoFile
    disk,          \* the cache file <root>/.knowledge_cache.json
    pc,            \* "idle" | "parse" | "analyze" | "save" | "done"
    mode,          \* cache mode of the current / last build
    via,           \* "lib": the builder was called; "cli": through run_cli
    disk0,         \* the cache file when the build was invoked
    cache_state,   \* the builder's in-memory cache
    reused,        \* files taken from the cache, in walk order
    to_parse,      \* stale files, in walk order
    read_log,      \* files whose content the parse stage read
    graph,         \* the graph under construction / returned
    outcome,       \* result of the last build: tag "none" | "Ok" | "Io" | "ParseError"
    saved,         \* the build's save_cache wrote the cache file
    prev,          \* the build before, when nothing changed since it returned
    n_builds,
    n_edits,
    answer         \* the last query run on the graph and what it returned

vars ==
    << fs, disk, pc, mode, via, disk0, cache_state, reused, to_parse, read_log,
       graph, outcome, saved, prev, n_builds, n_edits, answer >>

Modes == {"Use", "Ignore", "Rebuild"}

\* A build is a direct call of the builder or goes through run_cli, which
\* differs from the direct call only for Rebuild.
EntryPoints == {<<m, "lib">> : m \in Modes} \cup {<<"Rebuild", "cli">>}

NoPath == <<>>

NoOutcome == [tag |-> "none", file |-> NoPath, source |-> "none"]

NoAnswer == [query |-> "none", args |-> <<>>, owner |-> <<>>, result |-> <<>>]

Answer(query, args, owner, result) ==
    [query |-> query, args |-> args, owner |-> owner, result |-> result]

OkOutcome == [tag |-> "Ok", file |-> NoPath, source |-> "none"]

\* KnowledgeGraphError::Io(e): it names no file.
IoError == [tag |-> "Io", file |-> NoPath, source |-> "none"]

\* The build unwound with a panic: the caller gets neither Ok nor Err.
Panicked == [tag |-> "Panic", file |-> NoPath, source |-> "none"]

\* fs::read_to_string(p)? in a closure returning KnowledgeGraphError: the
\* io::Error converts through From into KnowledgeGraphError::Io.
ReadError(f) == IoError

\* Variant of BuildResult that propagates a failed save; C10 does not hold of
\* a builder that uses it.
BuildResultChecked(ok) == IF ok THEN OkOutcome ELSE IoError

\* cache::save_cache(..); Ok(graph): save_cache returns nothing (it drops the
\* result of the write), so the build returns Ok whatever the write did.
BuildResult(ok) == OkOutcome

NoPrev == [valid |-> FALSE, mode |-> "none", tag |-> "none", rels |-> {}]

RelSet(g) == SeqToSet(g.relationships)

Init ==
    /\ fs \in [Paths -> {NoFile} \cup {FileOf(t, 1) : t \in TextIds}]
    /\ disk = CacheAbsent
    /\ pc = "idle"
    /\ mode = "none"
    /\ via = "none"
    /\ disk0 = CacheAbsent
    /\ cache_state = EmptyCache
    /\ reused = <<>>
    /\ to_parse = <<>>
    /\ read_log = {}
    /\ graph = EmptyGraph
    /\ outcome = NoOutcome
    /\ saved = FALSE
    /\ prev = NoPrev
    /\ n_builds = 0
    /\ n_edits = 0
    /\ answer = NoAnswer

Quiescent == pc \in {"idle", "done"}

\* run_cli clears the cache file before a Rebuild build; the builder does not.
CacheFileAtStart(m, v, file) ==
    IF v = "cli" /\ m = "Rebuild" THEN ClearCacheFile ELSE file

\* build_from_directory_with_cache_opts, up to the partition into reused and
\* stale files.
Begin(m, v) ==
    /\ Quiescent
    /\ n_builds < MaxBuilds
    /\ n_builds' = n_builds + 1
    /\ mode' = m
    /\ via' = v
    /\ disk0' = disk
    /\ disk' = CacheFileAtStart(m, v, disk)
    /\ LET files == Discover(fs)
           c == Prune(m, InitialCacheState(m, CacheFileAtStart(m, v, disk)), files)
       IN  /\ cache_state' = c
           /\ reused' = ReusedFiles(m, c, fs, files)
           /\ to_parse' = ToParse(m, c, fs, files)
    /\ read_log' = {}
    /\ graph' = EmptyGraph
    /\ outcome' = NoOutcome
    /\ saved' = FALSE
    /\ prev' = IF pc = "done"
               THEN [valid |-> TRUE, mode |-> mode, tag |-> outcome.tag, rels |-> RelSet(graph)]
               ELSE NoPrev
    /\ pc' = "parse"
    /\ UNCHANGED <<fs, n_edits, answer>>

\* (variant) the failing build saves the entries of the files it did parse.
ParseFailSaving(f) ==
    /\ pc = "parse"
    /\ f \in SeqToSet(to_parse)
    /\ ~CanRead(fs, f)
    /\ outcome' = ReadError(f)
    /\ read_log' = {q \in SeqToSet(to_parse) : CanRead(fs, q)}
    /\ disk' = SaveCache(disk, UpdatedCache(cache_state, fs,
                                           SelectSeq(to_parse, LAMBDA q : CanRead(fs, q))),
                         TRUE)
    /\ pc' = "done"
    /\ UNCHANGED <<fs, mode, via, disk0, cache_state, reused, to_parse, graph,
                   saved, prev, n_builds, n_edits, answer>>

\* The parallel parse stage when some stale file cannot be read: the build
\* returns that error and nothing else happens.
ParseFail(f) ==
    /\ pc = "parse"
    /\ f \in SeqToSet(to_parse)
    /\ ~CanRead(fs, f)
    /\ outcome' = ReadError(f)
    /\ read_log' = {q \in SeqToSet(to_parse) : CanRead(fs, q)}
    /\ pc' = "done"
    /\ UNCHANGED <<fs, disk, mode, via, disk0, cache_state, reused, to_parse, graph,
                   saved, prev, n_builds, n_edits, answer>>

\* The parse stage when every stale file is read, the merge into the graph,
\* the cache update and the precomputation of the segments.
ParseOk ==
    /\ pc = "parse"
    /\ \A f \in SeqToSet(to_parse) : CanRead(fs, f)
    /\ read_log' = SeqToSet(to_parse)
    /\ graph' = MergedGraph(cache_state, fs, reused, to_parse)
    /\ cache_state' = UpdatedCache(cache_state, fs, to_parse)
    /\ pc' = "analyze"
    /\ UNCHANGED <<fs, disk, mode, via, disk0, reused, to_parse, outcome, saved, prev,
                   n_builds, n_edits, answer>>

\* analyze_relationships, under one iteration order of graph.files.
Analyze(ord) ==
    /\ pc = "analyze"
    /\ ~AnalyzePanics(graph, fs)
    /\ graph' = AnalyzeRelationships(graph, ord, fs)
    /\ pc' = "save"
    /\ UNCHANGED <<fs, disk, mode, via, disk0, cache_state, reused, to_parse, read_log,
                   outcome, saved, prev, n_builds, n_edits, answer>>

\* analyze_relationships when a task of the calls pass panics: the build
\* unwinds before save_cache, no graph is returned.
AnalyzePanic ==
    /\ pc = "analyze"
    /\ AnalyzePanics(graph, fs)
    /\ graph' = EmptyGraph
    /\ outcome' = Panicked
    /\ pc' = "done"
    /\ UNCHANGED <<fs, disk, mode, via, disk0, cache_state, reused, to_parse, read_log,
                   saved, prev, n_builds, n_edits, answer>>

\* cache::save_cache (best effort) and the return of Ok(graph).
Save(ok) ==
    /\ pc = "save"
    /\ disk' = SaveCache(disk, cache_state, ok)
    /\ outcome' = BuildResult(ok)
    /\ saved' = ok
    /\ pc' = "done"
    /\ UNCHANGED <<fs, mode, via, disk0, cache_state, reused, to_parse, read_log, graph,
                   prev, n_builds, n_edits, answer>>

\* Between builds the caller drops the graph; the tree and the cache file stay.
Forget ==
    /\ pc' = "idle"
    /\ mode' = "none"
    /\ via' = "none"
    /\ disk0' = CacheAbsent
    /\ cache_state' = EmptyCache
    /\ reused' = <<>>
    /\ to_parse' = <<>>
    /\ read_log' = {}
    /\ graph' = EmptyGraph
    /\ outcome' = NoOutcome
    /\ saved' = FALSE
    /\ prev' = NoPrev
    /\ n_edits' = n_edits + 1
    /\ answer' = NoAnswer
    /\ UNCHANGED n_builds

CanEdit == Quiescent /\ n_edits < MaxEdits

WriteFile(p, t, m) ==
    /\ CanEdit
    /\ fs[p] # FileOf(t, m)
    /\ fs' = [fs EXCEPT ![p] = FileOf(t, m)]
    /\ Forget
    /\ UNCHANGED disk

RemoveFile(p) ==
    /\ CanEdit
    /\ fs[p].present
    /\ fs' = [fs EXCEPT ![p] = NoFile]
    /\ Forget
    /\ UNCHANGED disk

\* The file can no longer be stat'ed, or no longer be read.
BreakFile(p, k) ==
    /\ CanEdit
    /\ fs[p].present
    /\ fs[p].fault # k
    /\ fs' = [fs EXCEPT ![p].fault = k]
    /\ Forget
    /\ UNCHANGED disk

\* The cache file is overwritten with something that is not a cache.
CorruptCache ==
    /\ CanEdit
    /\ disk' = CacheCorrupt
    /\ Forget
    /\ UNCHANGED fs

\* cache::clear_cache called directly.
ClearCache ==
    /\ CanEdit
    /\ disk.status # "absent"
    /\ disk' = ClearCacheFile
    /\ Forget
    /\ UNCHANGED fs

Next ==
    \/ \E e \in EntryPoints : Begin(e[1], e[2])
    \/ \E f \in Paths : ParseFail(f)
    \/ ParseOk
    \/ \E ord \in Orders(DOMAIN graph.files) : Analyze(ord)
    \/ \E ok \in BOOLEAN : Save(ok)
    \/ \E p \in Paths, t \in TextIds, m \in 1..MaxTime : WriteFile(p, t, m)
    \/ \E p \in Paths : RemoveFile(p)
    \/ \E p \in Paths, k \in Faults : BreakFile(p, k)
    \/ CorruptCache
    \/ ClearCache

Spec == Init /\ [][Next]_vars

\* ----------------------------------------------------- one build of a tree
\* One build, from no cache, of every tree over TreePaths.
InitTree ==
    /\ fs \in [TreePaths -> {NoFile} \cup {FileOf(t, 1) : t \in TreeTextIds}]
    /\ disk = CacheAbsent
    /\ pc = "idle"
    /\ mode = "none"
    /\ via = "none"
    /\ disk0 = CacheAbsent
    /\ cache_state = EmptyCache
    /\ reused = <<>>
    /\ to_parse = <<>>
    /\ read_log = {}
    /\ graph = EmptyGraph
    /\ outcome = NoOutcome
    /\ saved = FALSE
    /\ prev = NoPrev
    /\ n_builds = MaxBuilds - 1
    /\ n_edits = MaxEdits
    /\ answer = NoAnswer

NextTree ==
    \/ Begin("Use", "lib")
    \/ ParseOk
    \/ \E ord \in Orders(DOMAIN graph.files) : Analyze(ord)
    \/ Save(TRUE)

SpecTree == InitTree /\ [][NextTree]_vars

\* ------------------------------------------- one build of a nested tree
\* One build, from no cache, of every tree over DeepPaths.
InitDeep ==
    /\ fs \in [DeepPaths -> {NoFile} \cup {FileOf(t, 1) : t \in DeepTextIds}]
    /\ disk = CacheAbsent
    /\ pc = "idle"
    /\ mode = "none"
    /\ via = "none"
    /\ disk0 = CacheAbsent
    /\ cache_state = EmptyCache
    /\ reused = <<>>
    /\ to_parse = <<>>
    /\ read_log = {}
    /\ graph = EmptyGraph
    /\ outcome = NoOutcome
    /\ saved = FALSE
    /\ prev = NoPrev
    /\ n_builds = MaxBuilds - 1
    /\ n_edits = MaxEdits
    /\ answer = NoAnswer

SpecDeep == InitDeep /\ [][NextTree]_vars

\* -------------------------------------- one build, the tasks in any order
\* One build, from no cache, of every tree over three of the TreePaths.
InitPar ==
    /\ fs \in [TreePaths -> {NoFile} \cup {FileOf(t, 1) : t \in TreeTextIds}]
    /\ ~fs[PathMLib].present
    /\ disk = CacheAbsent
    /\ pc = "idle"
    /\ mode = "none"
    /\ via = "none"
    /\ disk0 = CacheAbsent
    /\ cache_state = EmptyCache
    /\ reused = <<>>
    /\ to_parse = <<>>
    /\ read_log = {}
    /\ graph = EmptyGraph
    /\ outcome = NoOutcome
    /\ saved = FALSE
    /\ prev = NoPrev
    /\ n_builds = MaxBuilds - 1
    /\ n_edits = MaxEdits
    /\ answer = NoAnswer

\* analyze_relationships with the tasks of the parallel stages finishing in
\* any order; answer keeps the orders of the run.
AnalyzeInParallel(ord, su, sc) ==
    /\ pc = "analyze"
    /\ ~AnalyzePanics(graph, fs)
    /\ graph' = AnalyzeScheduled(graph, ord, su, sc, fs)
    /\ answer' = Answer("schedule", <<ord, su, sc>>, <<>>, <<>>)
    /\ pc' = "save"
    /\ UNCHANGED <<fs, disk, mode, via, disk0, cache_state, reused, to_parse, read_log,
                   outcome, saved, prev, n_builds, n_edits>>

NextPar ==
    \/ Begin("Use", "lib")
    \/ ParseOk
    \/ \E ord \in Orders(DOMAIN graph.files), su \in Orders(DOMAIN graph.files),
           sc \in Orders(DOMAIN graph.files) :
           AnalyzeInParallel(ord, su, sc)
    \/ Save(TRUE)

SpecPar == InitPar /\ [][NextPar]_vars

\* ------------- builds of texts with multi-byte characters and qualified calls
InitWide ==
    /\ fs \in [Paths -> {NoFile} \cup {FileOf(t, 1) : t \in WideTextIds}]
    /\ disk = CacheAbsent
    /\ pc = "idle"
    /\ mode = "none"
    /\ via = "none"
    /\ disk0 = CacheAbsent
    /\ cache_state = EmptyCache
    /\ reused = <<>>
    /\ to_parse = <<>>
    /\ read_log = {}
    /\ graph = EmptyGraph
    /\ outcome = NoOutcome
    /\ saved = FALSE
    /\ prev = NoPrev
    /\ n_builds = 0
    /\ n_edits = 0
    /\ answer = NoAnswer

\* A file becomes unreadable after the parse stage read it and before the
\* calls pass reads it again.
LoseFile(p) ==
    /\ pc = "analyze"
    /\ fs[p].present
    /\ fs[p].fault = "none"
    /\ fs' = [fs EXCEPT ![p].fault = "read"]
    /\ UNCHANGED <<disk, pc, mode, via, disk0, cache_state, reused, to_parse, read_log,
                   graph, outcome, saved, prev, n_builds, n_edits, answer>>

NextWide ==
    \/ Begin("Use", "lib")
    \/ ParseOk
    \/ \E p \in Paths : LoseFile(p)
    \/ \E ord \in Orders(DOMAIN graph.files) : Analyze(ord)
    \/ AnalyzePanic
    \/ Save(TRUE)

SpecWide == InitWide /\ [][NextWide]_vars

\* ------------------------------------------------ a build saved and loaded
\* KnowledgeGraph::save_json of the graph a build returned, then
\* KnowledgeGraph::load_json of that file in place of the graph.
SaveThenLoadJson ==
    /\ pc = "done"
    /\ outcome.tag = "Ok"
    /\ graph' = LoadJson(SaveJson(graph))
    /\ pc' = "reloaded"
    /\ UNCHANGED <<fs, disk, mode, via, disk0, cache_state, reused, to_parse, read_log,
                   outcome, saved, prev, n_builds, n_edits, answer>>

NextJson ==
    \/ Begin("Use", "lib")
    \/ ParseOk
    \/ \E ord \in Orders(DOMAIN graph.files) : Analyze(ord)
    \/ Save(TRUE)
    \/ SaveThenLoadJson

SpecJson == InitDeep /\ [][NextJson]_vars

\* ----------------------------------------------------------------- queries
\* The files of the graphs the queries run on.
QA == <<"src", "a">>
QB == <<"src", "b">>
QC == <<"src", "c">>
QD == <<"src", "m", "d">>

QueryPaths == {QA, QB, QC, QD}

\* A path that is no file of any graph.
QMissing == <<"src", "zz">>

\* Ord of PathBuf on these paths and their directories (component by
\* component, a prefix first).
PathOrder == <<ParentDir(QA), QA, QB, QC, ParentDir(QD), QD, QMissing>>

\* Vec<PathBuf>::sort of the paths of S.
SortPaths(S) == SelectSeq(PathOrder, LAMBDA p : p \in S)

\* The source of each file.  With dup, src/m/d.rs defines a function fa on
\* line 1 like src/a.rs, so that the id fn:fa:1 occurs in two files.
QueryText(p, dup) ==
    IF p = QA THEN << FnLine("pub", "fa", 15) >>
    ELSE IF p = QB THEN << FnLine("", "fb", 11) >>
    ELSE IF p = QC THEN << FnLine("pub(crate)", "fc", 22) >>
    ELSE IF dup THEN << FnLine("", "fa", 11), FnLine("", "fd", 11) >>
    ELSE << StructLine("", "S", 12), FnLine("", "fd", 11) >>

\* Relationship::Uses of a module, as analyze_import_uses emits it.
UsesModuleEdge(from, to, context) ==
    [ from_item |-> from, to_item |-> to, rtype |-> "Uses", sub |-> "import-module",
      strength |-> 8, context |-> context ]

\* The relationships a graph may hold.
QueryEdges ==
    { CallsEdge(FileId(QA), "fn:fb:1", "heuristic", "fb"),
      CallsEdge(FileId(QB), "fn:fc:1", "heuristic", "fc"),
      CallsEdge(FileId(QC), "fn:fa:1", "heuristic", "fa"),
      CallsEdge(FileId(QA), "fn:fc:1", "heuristic", "fc"),
      CallsEdge(FileId(QB), "fn:fd:2", "heuristic", "fd"),
      CallsEdge(FileId(QC), "fn:fd:2", "heuristic", "fd"),
      CallsEdge(FileId(QA), "fn:fa:1", "heuristic", "fa"),
      UsesModuleEdge(FileId(QA), FileId(QB), "crate::b") }

\* The longest relationship list of a graph.
MaxRels == 4

\* The relationship lists: up to MaxRels different relationships in any order.
RelLists ==
    UNION { {s \in [1..n -> QueryEdges] : \A i, j \in 1..n : i # j => s[i] # s[j]} :
            n \in 0..MaxRels }

\* A graph with the four files and the given relationships.
QueryGraph(dup, rels) ==
    [ EmptyGraph EXCEPT
        !.files = [p \in QueryPaths |-> WithFileItem(ParseFile(QueryText(p, dup), p))],
        !.relationships = rels ]

\* The item -> file maps the iteration orders of graph.files give.
ItemToFileMaps(g) == {ItemToFile(g, ord) : ord \in Orders(DOMAIN g.files)}

\* Variant of IsCallEdge that takes every relationship for a call; C20 does
\* not hold of a cycle detection that uses it.
IsAnyEdge(rel) == TRUE

\* matches!(rel.relationship_type, RelationshipType::Calls { .. })
IsCallEdge(rel) == rel.rtype = "Calls"

\* The file -> file edge of every relationship (of every Calls relationship
\* when calls_only) whose endpoints are known items of different files, in
\* relationship order.
FileEdges(g, i2f, calls_only) ==
    LET rels == SelectSeq(g.relationships,
                    LAMBDA r : /\ calls_only => IsCallEdge(r)
                               /\ r.from_item \in DOMAIN i2f
                               /\ r.to_item \in DOMAIN i2f
                               /\ i2f[r.from_item] # i2f[r.to_item])
    IN  [i \in 1..Len(rels) |-> <<i2f[rels[i].from_item], i2f[rels[i].to_item]>>]

\* Variant of AdjOf that follows the edges backwards; C19 does not hold of a
\* search that uses it.
AdjOfReversed(edges, u) ==
    LET es == SelectSeq(edges, LAMBDA e : e[2] = u)
    IN  [i \in 1..Len(es) |-> es[i][1]]

\* adj[u] of ShortestPathQuery: the targets of u's edges in push order,
\* parallel edges kept.
AdjOf(edges, u) ==
    LET es == SelectSeq(edges, LAMBDA e : e[1] = u)
    IN  [i \in 1..Len(es) |-> es[i][2]]

\* for &v in &adj[u]: mark, record the predecessor and enqueue the unvisited.
RECURSIVE VisitAll(_, _, _, _, _)
VisitAll(ns, u, q, visited, prevOf) ==
    IF ns = <<>> THEN [q |-> q, visited |-> visited, prevOf |-> prevOf]
    ELSE IF Head(ns) \in visited THEN VisitAll(Tail(ns), u, q, visited, prevOf)
    ELSE VisitAll(Tail(ns), u, Append(q, Head(ns)), visited \cup {Head(ns)},
                  (Head(ns) :> u) @@ prevOf)

\* while let Some(u) = q.pop_front(): stop at dst, else visit adj[u].
RECURSIVE Bfs(_, _, _, _, _)
Bfs(edges, dst, q, visited, prevOf) ==
    IF q = <<>> \/ Head(q) = dst THEN [visited |-> visited, prevOf |-> prevOf]
    ELSE LET r == VisitAll(AdjOf(edges, Head(q)), Head(q), Tail(q), visited, prevOf)
         IN  Bfs(edges, dst, r.q, r.visited, r.prevOf)

\* The predecessor chain from cur back to the start, reversed, src first.
RECURSIVE PathBack(_, _, _)
PathBack(prevOf, src, cur) ==
    IF cur \in DOMAIN prevOf THEN PathBack(prevOf, src, prevOf[cur]) \o <<cur>>
    ELSE <<src>>

\* ShortestPathQuery::run
ShortestPath(g, i2f, from, to) ==
    IF from \notin DOMAIN g.files \/ to \notin DOMAIN g.files THEN <<>>
    ELSE LET edges == FileEdges(g, i2f, FALSE)
             r == Bfs(edges, to, <<from>>, {from}, EmptyMap)
         IN  IF to \notin r.visited THEN <<>> ELSE PathBack(r.prevOf, from, to)

\* neigh.sort_unstable(); neigh.dedup() of the targets of u's edges.
SortedAdj(edges, u) == SortPaths({e[2] : e \in {x \in SeqToSet(edges) : x[1] = u}})

\* path.iter().position(|&x| x == v)
Position(path, v) == CHOOSE i \in 1..Len(path) : path[i] = v /\ \A j \in 1..(i - 1) : path[j] # v

\* dfs of CycleDetectionQuery: st holds visited, stack, path and out.
RECURSIVE Dfs(_, _, _)
RECURSIVE DfsNeighbours(_, _, _)
Dfs(edges, u, st) ==
    LET entered == [st EXCEPT !.visited = @ \cup {u}, !.stack = @ \cup {u},
                               !.path = Append(@, u)]
        after == DfsNeighbours(edges, SortedAdj(edges, u), entered)
    IN  [after EXCEPT !.path = SubSeq(@, 1, Len(@) - 1), !.stack = @ \ {u}]

DfsNeighbours(edges, ns, st) ==
    IF ns = <<>> THEN st
    ELSE LET v == Head(ns)
             next == IF v \notin st.visited THEN Dfs(edges, v, st)
                     ELSE IF v \in st.stack /\ v \in SeqToSet(st.path)
                     THEN [st EXCEPT !.out =
                              Append(@, SubSeq(st.path, Position(st.path, v), Len(st.path)))]
                     ELSE st
         IN  DfsNeighbours(edges, Tail(ns), next)

\* for u in 0..file_ids.len(): dfs from every file not visited yet.
RECURSIVE DfsFrom(_, _, _)
DfsFrom(edges, us, st) ==
    IF us = <<>> THEN st
    ELSE DfsFrom(edges, Tail(us),
                 IF Head(us) \in st.visited THEN st ELSE Dfs(edges, Head(us), st))

\* CycleDetectionQuery::run
CycleDetection(g, i2f) ==
    DfsFrom(FileEdges(g, i2f, TRUE), SortPaths(DOMAIN g.files),
            [visited |-> {}, stack |-> {}, path |-> <<>>, out |-> <<>>]).out

KindOf(item) == item.item_type.tag

VisOf(item) ==
    IF item.visibility = "Public" THEN "public"
    ELSE IF item.visibility = "Private" THEN "private"
    ELSE IF item.visibility = "PubCrate" THEN "pub(crate)"
    ELSE IF item.visibility = "PubSuper" THEN "pub(super)"
    ELSE "pub(in)"

\* The rows of one file: its items after the first, less the public ones
\* unless asked for, less the targets of Uses and Calls edges.
UnreferencedRows(g, p, used, include_public) ==
    LET its == g.files[p].items
        keep == SelectSeq([i \in 1..Len(its) |-> [idx |-> i, item |-> its[i]]],
                    LAMBDA e : /\ e.idx # 1
                               /\ (include_public \/ e.item.visibility # "Public")
                               /\ e.item.id \notin used)
    IN  [i \in 1..Len(keep) |->
            <<p, keep[i].item.id, keep[i].item.name, KindOf(keep[i].item), VisOf(keep[i].item)>>]

\* UnreferencedItemsQuery::run with no exclude pattern: the rows file by file
\* in the iteration order of graph.files.
UnreferencedItems(g, ord, include_public) ==
    LET used == {r.to_item : r \in {x \in SeqToSet(g.relationships) :
                                        x.rtype \in {"Uses", "Calls"}}}
    IN  Flatten([i \in 1..Len(ord) |-> UnreferencedRows(g, ord[i], used, include_public)])

\* The ids of the items of a file (file_to_items).
ItemIdsOf(g, p) == {g.files[p].items[i].id : i \in 1..Len(g.files[p].items)}

\* ConnectedFilesQuery::run
ConnectedFiles(g, i2f, file) ==
    IF file \notin DOMAIN g.files THEN <<>>
    ELSE LET target_set == ItemIdsOf(g, file)
             rels == SeqToSet(g.relationships)
             opposite(r) ==
                 (IF r.from_item \in target_set /\ r.to_item \in DOMAIN i2f
                  THEN {i2f[r.to_item]} ELSE {})
                 \cup (IF r.to_item \in target_set /\ r.from_item \in DOMAIN i2f
                       THEN {i2f[r.from_item]} ELSE {})
         IN  SortPaths(UNION {opposite(r) : r \in rels} \ {file})

\* FunctionUsageQuery::run: the files of the items at the other end of the
\* relationships that end at (callers) or start from (callees) a function of
\* that name.
FunctionUsage(g, i2f, function, direction) ==
    LET target_set ==
            UNION {{g.files[p].items[i].id : i \in
                       {j \in 1..Len(g.files[p].items) :
                           /\ g.files[p].items[j].item_type.tag = "Function"
                           /\ g.files[p].items[j].name = function}} : p \in DOMAIN g.files}
        rels == SeqToSet(g.relationships)
    IN  IF target_set = {} THEN <<>>
        ELSE IF direction = "Callers"
        THEN SortPaths({i2f[r.from_item] : r \in
                {x \in rels : x.to_item \in target_set /\ x.from_item \in DOMAIN i2f}})
        ELSE SortPaths({i2f[r.to_item] : r \in
                {x \in rels : x.from_item \in target_set /\ x.to_item \in DOMAIN i2f}})

CentralityMetrics == {"In", "Out", "Total"}

\* The sort key of a row (node, indegree, outdegree).
MetricOf(row, metric) ==
    IF metric = "In" THEN row[2] ELSE IF metric = "Out" THEN row[3] ELSE row[2] + row[3]

PathRank(p) == CHOOSE i \in 1..Len(PathOrder) : PathOrder[i] = p

\* bk.cmp(&ak).then_with(|| a.0.cmp(&b.0)): metric descending, then path.
RowBefore(a, b, metric) ==
    \/ MetricOf(a, metric) > MetricOf(b, metric)
    \/ MetricOf(a, metric) = MetricOf(b, metric) /\ PathRank(a[1]) < PathRank(b[1])

RECURSIVE SortRows(_, _)
SortRows(rows, metric) ==
    IF rows = {} THEN <<>>
    ELSE LET first == CHOOSE r \in rows : \A o \in rows \ {r} : RowBefore(r, o, metric)
         IN  <<first>> \o SortRows(rows \ {first}, metric)

\* Vec::truncate
Truncate(s, n) == IF Len(s) <= n THEN s ELSE SubSeq(s, 1, n)

\* One row per node: the number of edges into it and out of it, every
\* relationship between two different nodes counted.
DegreeRows(nodes, edges) ==
    {<<n, Len(SelectSeq(edges, LAMBDA e : e[2] = n)),
          Len(SelectSeq(edges, LAMBDA e : e[1] = n))>> : n \in nodes}

\* HubsQuery::run
Hubs(g, i2f, metric, top) ==
    Truncate(SortRows(DegreeRows(DOMAIN g.files, FileEdges(g, i2f, FALSE)), metric), top)

\* ModuleCentralityQuery::run: the same over the parent directories.
ModuleCentrality(g, i2f, metric, top) ==
    LET i2m == [id \in DOMAIN i2f |-> ParentDir(i2f[id])]
    IN  Truncate(SortRows(DegreeRows({ParentDir(p) : p \in DOMAIN g.files},
                                     FileEdges(g, i2m, FALSE)), metric), top)

\* What a query run leaves: the query, its arguments, the item -> file map it
\* built (empty for a query that builds none) and the rows it returned.
\* A graph made by hand or loaded from JSON, no build involved.
InitQuery ==
    /\ fs = [p \in Paths |-> NoFile]
    /\ disk = CacheAbsent
    /\ pc = "loaded"
    /\ mode = "none"
    /\ via = "none"
    /\ disk0 = CacheAbsent
    /\ cache_state = EmptyCache
    /\ reused = <<>>
    /\ to_parse = <<>>
    /\ read_log = {}
    /\ graph \in {QueryGraph(dup, rels) : dup \in BOOLEAN, rels \in RelLists}
    /\ outcome = NoOutcome
    /\ saved = FALSE
    /\ prev = NoPrev
    /\ n_builds = MaxBuilds
    /\ n_edits = MaxEdits
    /\ answer = NoAnswer

\* A query reads the graph and changes nothing; one run makes one query.
Asked(a) ==
    /\ pc = "loaded"
    /\ pc' = "answered"
    /\ answer' = a
    /\ UNCHANGED << fs, disk, mode, via, disk0, cache_state, reused, to_parse, read_log,
                    graph, outcome, saved, prev, n_builds, n_edits >>

RunShortestPath(i2f, from, to) ==
    Asked(Answer("ShortestPath", <<from, to>>, i2f, ShortestPath(graph, i2f, from, to)))

RunCycleDetection(i2f) ==
    Asked(Answer("CycleDetection", <<>>, i2f, CycleDetection(graph, i2f)))

RunUnreferencedItems(ord, include_public) ==
    Asked(Answer("UnreferencedItems", <<include_public>>, <<>>,
                 UnreferencedItems(graph, ord, include_public)))

RunConnectedFiles(i2f, file) ==
    Asked(Answer("ConnectedFiles", <<file>>, i2f, ConnectedFiles(graph, i2f, file)))

RunFunctionUsage(i2f, function, direction) ==
    Asked(Answer("FunctionUsage", <<function, direction>>, i2f,
                 FunctionUsage(graph, i2f, function, direction)))

RunHubs(i2f, metric, top) ==
    Asked(Answer("Hubs", <<metric, top>>, i2f, Hubs(graph, i2f, metric, top)))

RunModuleCentrality(i2f, metric, top) ==
    Asked(Answer("ModuleCentrality", <<metric, top>>, i2f,
                 ModuleCentrality(graph, i2f, metric, top)))

NextQuery ==
    \/ pc = "loaded" /\ \E i2f \in ItemToFileMaps(graph), from, to \in QueryPaths \cup {QMissing} :
           RunShortestPath(i2f, from, to)
    \/ pc = "loaded" /\ \E i2f \in ItemToFileMaps(graph) : RunCycleDetection(i2f)
    \/ pc = "loaded" /\ \E ord \in Orders(DOMAIN graph.files), pub \in BOOLEAN :
           RunUnreferencedItems(ord, pub)
    \/ pc = "loaded" /\ \E i2f \in ItemToFileMaps(graph), file \in {QA, QD, QMissing} :
           RunConnectedFiles(i2f, file)
    \/ pc = "loaded" /\ \E i2f \in ItemToFileMaps(graph), f \in {"fa", "fd", "zz"},
                            d \in {"Callers", "Callees"} :
           RunFunctionUsage(i2f, f, d)
    \/ pc = "loaded" /\ \E i2f \in ItemToFileMaps(graph), m \in CentralityMetrics,
                            top \in {2, 4} :
           RunHubs(i2f, m, top)
    \/ pc = "loaded" /\ \E i2f \in ItemToFileMaps(graph), m \in CentralityMetrics :
           RunModuleCentrality(i2f, m, 2)

SpecQuery == InitQuery /\ [][NextQuery]_vars

\* ------------------------------------------------- the parser on its own
\* The shortest lines of each kind the patterns match, a line they do not
\* match and a blank line; bytes counts the line with its newline.
\* "fn f(", "pub fn g(", "struct S", "enum E", "use a;", "use a as b;", "f();"
ProbeLines ==
    { FnLine("", "f", 6), FnLine("pub", "g", 10), StructLine("", "S", 9),
      EnumLine("", "E", 7), UseLine(<<"a">>, NoAlias, 7), UseLine(<<"a">>, "b", 12),
      CallLine(<<"f">>, 5), BlankLine }

MaxLines == 3

\* Every text of at most MaxLines such lines, the empty text included.
ProbeTexts == UNION {[1..n -> ProbeLines] : n \in 0..MaxLines}

\* parse_file(content, path) as its caller sees it.
ParseFileResult(lines, p) == [tag |-> "Ok", node |-> ParseFile(lines, p)]

\* A text handed to the parser, nothing else going on.
InitParse ==
    /\ fs = [p \in Paths |-> NoFile]
    /\ disk = CacheAbsent
    /\ pc = "text"
    /\ mode = "none"
    /\ via = "none"
    /\ disk0 = CacheAbsent
    /\ cache_state = EmptyCache
    /\ reused = <<>>
    /\ to_parse = <<>>
    /\ read_log = {}
    /\ graph = EmptyGraph
    /\ outcome = NoOutcome
    /\ saved = FALSE
    /\ prev = NoPrev
    /\ n_builds = MaxBuilds
    /\ n_edits = MaxEdits
    /\ \E lines \in ProbeTexts : answer = Answer("parse_file", <<lines>>, <<>>, <<>>)

RunParseFile ==
    /\ pc = "text"
    /\ pc' = "parsed"
    /\ answer' = [answer EXCEPT !.result = ParseFileResult(answer.args[1], PathFoo)]
    /\ UNCHANGED << fs, disk, mode, via, disk0, cache_state, reused, to_parse, read_log,
                    graph, outcome, saved, prev, n_builds, n_edits >>

NextParse == RunParseFile

SpecParse == InitParse /\ [][NextParse]_vars

\* ------------------------------------------------------------------ claims
\* The last build returned Ok(graph).
BuiltOk == pc = "done" /\ outcome.tag = "Ok"

\* C1: after a successful build, in any mode and whatever builds and edits
\* came before, every file of graph.files has a non-empty item list whose
\* first item is the synthetic file-level module (id "file:" + path, type
\* Module{is_inline: false}, visibility PubCrate, name = file stem, location
\* (path, 1, 1)), and no other item of the file has that id.
C1_FileItemFirst ==
    BuiltOk =>
        \A p \in DOMAIN graph.files :
            LET items == graph.files[p].items
            IN  /\ items # <<>>
                /\ items[1].id = "file:" \o Render(p)
                /\ items[1].item_type = ItemType("Module", FALSE)
                /\ items[1].visibility = "PubCrate"
                /\ items[1].name = FileStem(p)
                /\ items[1].file = p
                /\ items[1].line_start = 1
                /\ items[1].line_end = 1
                /\ \A i \in 2..Len(items) : items[i].id # items[1].id

\* A successful Use build that reused one file from the cache of an earlier
\* build and parsed another, both with items of their own.
C1_Witness ==
    /\ BuiltOk
    /\ mode = "Use"
    /\ reused # <<>>
    /\ to_parse # <<>>
    /\ \A p \in DOMAIN graph.files : Len(graph.files[p].items) > 1

\* Positions in graph.relationships of the file_contains edges leaving id.
FileContainsFrom(id) ==
    {k \in 1..Len(graph.relationships) :
        /\ graph.relationships[k].rtype = "Contains"
        /\ graph.relationships[k].sub = "file_contains"
        /\ graph.relationships[k].from_item = id}

\* C2: after a successful build, for every file p and every item i of p but
\* the first, exactly one Contains{file_contains} edge goes from p's first
\* item to i, and every file_contains edge leaving p's first item ends at an
\* item of p.
C2_FileContainsEdges ==
    BuiltOk =>
        \A p \in DOMAIN graph.files :
            LET items == graph.files[p].items
                out == FileContainsFrom(items[1].id)
            IN  /\ \A i \in 2..Len(items) :
                       Cardinality({k \in out :
                           graph.relationships[k].to_item = items[i].id}) = 1
                /\ \A k \in out : \E i \in 1..Len(items) :
                       graph.relationships[k].to_item = items[i].id

\* A successful Use build with a reused and a parsed file, one of them with
\* two items of its own, and an item id that occurs in both files.
C2_Witness ==
    /\ BuiltOk
    /\ mode = "Use"
    /\ reused # <<>>
    /\ to_parse # <<>>
    /\ \E p \in DOMAIN graph.files : Len(graph.files[p].items) >= 3
    /\ \E p, q \in DOMAIN graph.files :
           /\ p # q
           /\ \E i \in 2..Len(graph.files[p].items), j \in 2..Len(graph.files[q].items) :
                  graph.files[p].items[i].id = graph.files[q].items[j].id

\* The ids of all items of all files of the graph.
ItemIds ==
    UNION {{graph.files[p].items[i].id : i \in 1..Len(graph.files[p].items)} :
              p \in DOMAIN graph.files}

\* C3: in the graph of a successful build, both ends of every relationship
\* (Contains, Uses, Calls) are ids of items present in some file.
C3_EndpointsExist ==
    BuiltOk =>
        \A k \in 1..Len(graph.relationships) :
            /\ graph.relationships[k].from_item \in ItemIds
            /\ graph.relationships[k].to_item \in ItemIds

\* A successful build whose graph has Contains, Uses and Calls edges, among
\* them a path call.
C3_Witness ==
    /\ BuiltOk
    /\ \A t \in {"Contains", "Uses", "Calls"} :
           \E k \in 1..Len(graph.relationships) : graph.relationships[k].rtype = t
    /\ \E k \in 1..Len(graph.relationships) : graph.relationships[k].sub = "path"

\* The files the last build discovered (the tree does not change during a build).
Discovered == SeqToSet(Discover(fs))

\* The cache file read at the start of the build has an entry for f whose
\* (mtime, len) equals what stat returns for f now.
CacheHit(f) ==
    /\ disk0.status = "valid"
    /\ f \in DOMAIN disk0.entries
    /\ disk0.entries[f].meta = StatMeta(fs, f)

\* The cache entry a fresh parse of f gives.
FreshEntry(f) == [meta |-> StatMeta(fs, f), node |-> ParsedNode(fs, f)]

C5_CacheKeysAreDiscovered ==
    (BuiltOk /\ saved) => (disk.status = "valid" /\ DOMAIN disk.entries = Discovered)

\* A successful, saved Use build that found in the cache an entry of a file
\* that is no longer in the tree, next to a file that is.
C5_Witness ==
    /\ BuiltOk
    /\ saved
    /\ mode = "Use"
    /\ disk0.status = "valid"
    /\ (DOMAIN disk0.entries) \ Discovered # {}
    /\ Discovered # {}

\* The build before returned Ok in mode Use, this one is a Use build too, and
\* nothing on the filesystem changed in between.
SecondUseBuild ==
    /\ BuiltOk
    /\ mode = "Use"
    /\ prev.valid
    /\ prev.mode = "Use"
    /\ prev.tag = "Ok"

\* C6: when a Use build is run twice with no filesystem change in between,
\* the relationships of the second build are set-equal to those of the first.
C6_SecondUseBuildSameRelationships ==
    SecondUseBuild => RelSet(graph) = prev.rels

\* C7: a Rebuild build has deleted the cache file before it reads or parses
\* any source file.
C7_RebuildDeletesCacheFirst ==
    (mode = "Rebuild" /\ pc = "parse") => disk.status = "absent"

\* The graph a build over the current tree returns when it starts from an
\* empty cache and graph.files is iterated in the order ord.
FreshBuild(ord) ==
    AnalyzeRelationships(MergedGraph(EmptyCache, fs, <<>>, Discover(fs)), ord, fs)

\* Every discovered file was read and parsed, and the graph is the one a
\* build from an empty cache returns.
AllFresh ==
    /\ read_log = Discovered
    /\ graph.files = [p \in Discovered |-> ParsedNode(fs, p)]
    /\ \E ord \in Orders(Discovered) : graph = FreshBuild(ord)

ReadFailed == \E f \in SeqToSet(to_parse) : ~CanRead(fs, f)

\* C9: when a file that has to be parsed cannot be read, the build returns
\* the error ParseError naming that file, with an Io cause.
C9_ReadFailureIsParseError ==
    (pc = "done" /\ ReadFailed) =>
        /\ outcome.tag = "ParseError"
        /\ outcome.file \in {f \in SeqToSet(to_parse) : ~CanRead(fs, f)}
        /\ outcome.source = "Io"

\* The build failed although every file it had to parse could be read.
FailedWithoutReadFailure == pc = "done" /\ outcome.tag # "Ok" /\ ~ReadFailed

HasModuleEdge(parent, child) ==
    \E k \in 1..Len(graph.relationships) :
        /\ graph.relationships[k].rtype = "Contains"
        /\ graph.relationships[k].sub = "module_contains"
        /\ graph.relationships[k].from_item = graph.files[parent].items[1].id
        /\ graph.relationships[k].to_item = graph.files[child].items[1].id

\* C11: after the module hierarchy analysis of a build, every entry
\* child -> parent of module_parent has both paths in files, child # parent,
\* a Contains{module_contains} edge from the parent's file item to the
\* child's, and child in module_children[parent]; module_children is the
\* transpose of module_parent, every child listed once; no entry names a path
\* that is not a file of the graph.
C11_ModuleMapsConsistent ==
    BuiltOk =>
        LET mp == graph.module_parent
            mc == graph.module_children
        IN  /\ \A c \in DOMAIN mp :
                   /\ c \in DOMAIN graph.files
                   /\ mp[c] \in DOMAIN graph.files
                   /\ c # mp[c]
                   /\ HasModuleEdge(mp[c], c)
                   /\ mp[c] \in DOMAIN mc
                   /\ c \in SeqToSet(mc[mp[c]])
            /\ \A pp \in DOMAIN mc :
                   /\ pp \in DOMAIN graph.files
                   /\ mc[pp] # <<>>
                   /\ \A i \in 1..Len(mc[pp]) :
                          /\ mc[pp][i] \in DOMAIN mp
                          /\ mp[mc[pp][i]] = pp
                          /\ \A j \in 1..Len(mc[pp]) : j # i => mc[pp][j] # mc[pp][i]

\* A built tree with three parent entries, one parent having two children.
C11_Witness ==
    /\ BuiltOk
    /\ Cardinality(DOMAIN graph.module_parent) = 3
    /\ \E pp \in DOMAIN graph.module_children : Len(graph.module_children[pp]) = 2

\* The parent the layout rule gives file p among the files of the graph:
\* <<parent>>, or <<>> when p has none.
LayoutParent(p) ==
    LET name == p[Len(p)]
        own == SubSeq(p, 1, Len(p) - 1)
        top == name \in {"mod", "lib"} /\ own = <<>>
        cand == IF name \in {"mod", "lib"} THEN SubSeq(own, 1, Len(own) - 1) ELSE own
    IN  IF top THEN <<>>
        ELSE IF (cand \o <<"mod">>) \in DOMAIN graph.files THEN <<cand \o <<"mod">>>>
        ELSE IF (cand \o <<"lib">>) \in DOMAIN graph.files THEN <<cand \o <<"lib">>>>
        ELSE <<>>

\* The module_contains edges of the graph.
ModuleContainsEdges ==
    {k \in 1..Len(graph.relationships) : graph.relationships[k].sub = "module_contains"}

\* C12: the module parent of a file follows from the layout alone: the
\* candidate directory is the grandparent directory for mod.rs / lib.rs and
\* the parent directory otherwise, and the parent is candidate/mod.rs if it is
\* a file of the graph, else candidate/lib.rs if it is, else there is none.
\* For src/lib.rs, src/m/mod.rs, src/m/foo.rs: mod.rs has parent lib.rs,
\* foo.rs has parent mod.rs, lib.rs has none and there are exactly two
\* module_contains edges.
C12_ParentFromLayout ==
    BuiltOk =>
        /\ \A p \in DOMAIN graph.files :
               IF LayoutParent(p) = <<>>
               THEN p \notin DOMAIN graph.module_parent
               ELSE /\ p \in DOMAIN graph.module_parent
                    /\ graph.module_parent[p] = LayoutParent(p)[1]
                    /\ HasModuleEdge(LayoutParent(p)[1], p)
        /\ Cardinality(ModuleContainsEdges) = Cardinality(DOMAIN graph.module_parent)
        /\ DOMAIN graph.files = {PathLib, PathMod, PathFoo} =>
               /\ graph.module_parent = (PathMod :> PathLib) @@ (PathFoo :> PathMod)
               /\ Cardinality(ModuleContainsEdges) = 2

\* The built tree holds src/m/mod.rs and src/m/lib.rs next to src/m/foo.rs
\* and src/lib.rs: mod.rs is preferred as the parent of foo.rs.
C12_Witness ==
    /\ BuiltOk
    /\ DOMAIN graph.files = TreePaths
    /\ graph.module_parent[PathFoo] = PathMod
    /\ graph.module_parent[PathMLib] = PathLib

\* The ids of the synthetic file-level modules of the graph.
FileLevelIds == {graph.files[p].items[1].id : p \in DOMAIN graph.files}

\* The ids of the items that are not the first of their file.
NonSyntheticIds ==
    UNION {{graph.files[p].items[i].id : i \in 2..Len(graph.files[p].items)} :
              p \in DOMAIN graph.files}

\* C13: every Uses edge of a built graph goes from a file's synthetic id to
\* another id; its import_type is "import-module" exactly when the target is
\* the synthetic module of some file and "import-item" exactly when it is a
\* non-synthetic item; the strength is 0.8 for import-module and 1.0 for
\* import-item.
C13_UsesEdgeTypes ==
    BuiltOk =>
        \A k \in 1..Len(graph.relationships) :
            LET e == graph.relationships[k]
            IN  e.rtype = "Uses" =>
                    /\ e.from_item \in FileLevelIds
                    /\ e.to_item # e.from_item
                    /\ e.sub \in {"import-module", "import-item"}
                    /\ e.sub = "import-module" <=> e.to_item \in FileLevelIds
                    /\ e.sub = "import-item" <=> e.to_item \in NonSyntheticIds
                    /\ e.strength = IF e.sub = "import-module" THEN 8 ELSE 10

\* A built graph with an import-module edge, an import-item edge, and an
\* import-item edge whose target id is an item of two files.
C13_Witness ==
    /\ BuiltOk
    /\ \A t \in {"import-module", "import-item"} :
           \E k \in 1..Len(graph.relationships) : graph.relationships[k].sub = t
    /\ \E k \in 1..Len(graph.relationships) :
           /\ graph.relationships[k].sub = "import-item"
           /\ \A p \in DOMAIN graph.files :
                  \E i \in 2..Len(graph.files[p].items) :
                      graph.files[p].items[i].id = graph.relationships[k].to_item
    /\ Cardinality(DOMAIN graph.files) = 2

\* The text matched at some site of file p that passes the exclusions of
\* C14 is ctx: a qualified chain not preceded by "!" or a definition
\* keyword, or a simple name not so preceded.
HasAdmissibleSite(p, ctx) ==
    LET lines == Texts[fs[p].text]
    IN  \/ \E i \in 1..Len(lines) :
               /\ lines[i].k = "call"
               /\ Len(lines[i].path) >= 2
               /\ JoinWith(lines[i].path, "::") = ctx
               /\ lines[i].pre \notin {"fn ", "struct ", "enum ", "trait ", "!"}
        \/ \E i \in 1..Len(SimpleSites(lines)) :
               /\ SimpleSites(lines)[i].name = ctx
               /\ SimpleSites(lines)[i].pre \notin {"fn ", "struct ", "enum ", "trait ", "!"}

\* C14: no Calls edge, path or heuristic, comes from a match that is preceded
\* by "!" or by one of "fn ", "struct ", "enum ", "trait ": every Calls edge
\* of a built graph has, in its file, a match of its context that is not so
\* preceded.
C14_NoCallFromExcludedSite ==
    BuiltOk =>
        \A p \in DOMAIN graph.files :
            \A k \in 1..Len(graph.relationships) :
                LET e == graph.relationships[k]
                IN  (e.rtype = "Calls" /\ e.from_item = graph.files[p].items[1].id)
                        => HasAdmissibleSite(p, e.context)

\* C15: item ids are unique in a built graph: two distinct items, of one
\* file or of two, never have the same id.
C15_ItemIdsUnique ==
    BuiltOk =>
        \A p, q \in DOMAIN graph.files :
            \A i \in 1..Len(graph.files[p].items), j \in 1..Len(graph.files[q].items) :
                (p # q \/ i # j) => graph.files[p].items[i].id # graph.files[q].items[j].id

\* The most `super` anchors a resolved path starts with.
MaxSupers == 3

\* The paths resolved after their anchors.
ProbeChains ==
    {<<"m3", "qux">>, <<"qux">>, <<"Q">>, <<"m1", "m2", "baz">>, <<"m2", "baz">>, <<"baz">>}

\* k times "super".
Supers(k) == [i \in 1..k |-> "super"]

\* The number of `super` that empties the scope of file f for the module
\* walk: the module segments of f, less the file stem of a leaf file.
SupersToRoot(f) ==
    Len(ModuleSegmentsFor(graph, f)) - (IF IsModOrLib(f) THEN 0 ELSE 1)

\* C16: anchors are consumed left to right before any alias or exposure
\* splice; crate clears the scope, self keeps it, super pops it and does
\* nothing on an empty scope.  So from every file f of a built graph and for
\* every path P, self::P resolves like P, and super^k::P resolves like
\* crate::P once k reaches the depth of f (its module segments, less one for a
\* leaf file), also after crate or with further super; and from
\* src/m1/m2/baz.rs both crate::m3::qux and super::super::m3::qux give a list
\* with the id of function qux of src/m3/qux.rs.
C16_AnchorsBeforeSplice ==
    BuiltOk =>
        \A ord \in Orders(DOMAIN graph.files) :
            LET res == ResolverNew(graph, ord)
                R(f, raw) == ResolveImport(graph, res, f, raw)
            IN  /\ \A f \in DOMAIN graph.files, P \in ProbeChains :
                       /\ R(f, <<"self">> \o P) = R(f, P)
                       /\ R(f, <<"crate", "super">> \o P) = R(f, <<"crate">> \o P)
                       /\ R(f, <<"super", "crate">> \o P) = R(f, <<"crate">> \o P)
                       /\ \A k \in 0..MaxSupers :
                              k >= SupersToRoot(f) =>
                                  R(f, Supers(k) \o P) = R(f, <<"crate">> \o P)
                /\ (PathBaz \in DOMAIN graph.files /\ PathQux \in DOMAIN graph.files
                        /\ fs[PathQux].text = Len(BuildTexts) + 4) =>
                       \A raw \in {<<"crate", "m3", "qux">>, <<"super", "super", "m3", "qux">>} :
                           \E i \in 1..Len(R(PathBaz, raw)) : R(PathBaz, raw)[i] = "fn:qux:1"

\* The built tree has src/m1/m2/baz.rs importing crate::m3::qux and
\* super::super::m3::qux, and both imports gave a Uses edge to the function
\* qux of src/m3/qux.rs; src/m3/mod.rs is there too.
C16_Witness ==
    /\ BuiltOk
    /\ PathM3Mod \in DOMAIN graph.files
    /\ \A c \in {"crate::m3::qux", "super::super::m3::qux"} :
           \E k \in 1..Len(graph.relationships) :
               /\ graph.relationships[k].rtype = "Uses"
               /\ graph.relationships[k].from_item = FileId(PathBaz)
               /\ graph.relationships[k].to_item = "fn:qux:1"
               /\ graph.relationships[k].context = c

\* C17: `use P as _;` binds no name, with the indices built from the
\* precomputed import_segments of the built graph and with the indices built
\* from the raw imports of the same graph loaded from JSON: `_` is no key of
\* alias_map, "_" resolves to nothing from every file, and the two ways give
\* the same alias_map and the same exposure_map.
C17_UnderscoreBindsNothing ==
    BuiltOk =>
        \A ord \in Orders(DOMAIN graph.files) :
            LET pre == ResolverNew(graph, ord)
                raw == ResolverNew(LoadJson(SaveJson(graph)), ord)
            IN  /\ "_" \notin DOMAIN pre.alias_map
                /\ "_" \notin DOMAIN raw.alias_map
                /\ \A f \in DOMAIN graph.files :
                       /\ ResolveImport(graph, pre, f, <<"_">>) = <<>>
                       /\ ResolveImport(LoadJson(SaveJson(graph)), raw, f, <<"_">>) = <<>>
                /\ pre.alias_map = raw.alias_map
                /\ pre.exposure_map = raw.exposure_map

\* The file-level projection under the item -> file map of the answered
\* query: one edge u -> v for every relationship of a kept type whose
\* endpoints are items of different files u and v.
Projection(types) ==
    {e \in (DOMAIN graph.files) \X (DOMAIN graph.files) :
        /\ e[1] # e[2]
        /\ \E r \in SeqToSet(graph.relationships) :
               /\ r.rtype \in types
               /\ r.from_item \in DOMAIN answer.owner
               /\ r.to_item \in DOMAIN answer.owner
               /\ answer.owner[r.from_item] = e[1]
               /\ answer.owner[r.to_item] = e[2]}

RelationshipTypes == {"Contains", "Uses", "Calls", "Implements", "Extends"}

\* The directed walks from `from` to `to` along edges of E that visit at most
\* as many files as the graph has (every shortest walk is among them).
WalksBetween(E, from, to) ==
    {w \in UNION {[1..n -> DOMAIN graph.files] : n \in 1..Cardinality(DOMAIN graph.files)} :
        /\ w[1] = from
        /\ w[Len(w)] = to
        /\ \A i \in 1..(Len(w) - 1) : <<w[i], w[i + 1]>> \in E}

\* C19: ShortestPath(from, to) answers the empty list exactly when from or
\* to is no file of the graph or no directed walk of the projection of all
\* relationships (self-loops dropped) leads from from to to; otherwise its
\* answer is such a walk, from first and to last, and no walk from from to to
\* has fewer edges; for from = to it is [from].
C19_ShortestPathIsShortest ==
    answer.query = "ShortestPath" =>
        LET from == answer.args[1]
            to == answer.args[2]
            walks == WalksBetween(Projection(RelationshipTypes), from, to)
        IN  /\ answer.result = <<>> <=>
                   (from \notin DOMAIN graph.files \/ to \notin DOMAIN graph.files \/ walks = {})
            /\ answer.result # <<>> =>
                   /\ answer.result \in walks
                   /\ \A w \in walks : Len(answer.result) <= Len(w)
            /\ (from = to /\ from \in DOMAIN graph.files) => answer.result = <<from>>

\* ShortestPath answered a walk over three files although a walk over four
\* files leads to the same file, in a graph where an id occurs in two files.
C19_Witness ==
    /\ answer.query = "ShortestPath"
    /\ Len(answer.result) = 3
    /\ \E w \in WalksBetween(Projection(RelationshipTypes), answer.args[1], answer.args[2]) :
           Len(w) = 4
    /\ Len(graph.files[QD].items) = 3 /\ graph.files[QD].items[2].id = graph.files[QA].items[2].id

\* E has a directed cycle: some edge u -> v with a walk from v back to u.
HasCycle(E) == \E e \in E : WalksBetween(E, e[2], e[1]) # {}

\* c is a cycle of E: pairwise distinct files, an edge from each to the next
\* and from the last to the first.
IsCycleOf(E, c) ==
    /\ c # <<>>
    /\ \A i, j \in 1..Len(c) : i # j => c[i] # c[j]
    /\ \A i \in 1..(Len(c) - 1) : <<c[i], c[i + 1]>> \in E
    /\ <<c[Len(c)], c[1]>> \in E

\* C20: CycleDetection works on the projection of the Calls edges alone
\* (self-loops dropped): it reports something exactly when that projection has
\* a directed cycle, whatever edges of other types there are; every cycle it
\* reports is a list of pairwise distinct files with a Calls edge from each to
\* the next and from the last to the first; and with Calls edges a -> b,
\* b -> c, c -> a it reports a cycle whose files are exactly a, b and c.
C20_CyclesOfCallsProjection ==
    answer.query = "CycleDetection" =>
        LET E == Projection({"Calls"})
            cycles == answer.result
        IN  /\ cycles # <<>> <=> HasCycle(E)
            /\ \A k \in 1..Len(cycles) : IsCycleOf(E, cycles[k])
            /\ {<<QA, QB>>, <<QB, QC>>, <<QC, QA>>} \subseteq E =>
                   \E k \in 1..Len(cycles) : SeqToSet(cycles[k]) = {QA, QB, QC}

\* CycleDetection reported a cycle over src/a.rs, src/b.rs and src/c.rs in a
\* graph that also has a Uses edge from src/a.rs to src/b.rs; it reported no
\* cycle of two files.
C20_Witness ==
    /\ answer.query = "CycleDetection"
    /\ \E k \in 1..Len(answer.result) : SeqToSet(answer.result[k]) = {QA, QB, QC}
    /\ \E r \in SeqToSet(graph.relationships) : r.rtype = "Uses"
    /\ \A k \in 1..Len(answer.result) : Len(answer.result[k]) # 2

\* What the query returns on graph g whose files map iterates in order ord.
QueryResult(g, ord, query, args) ==
    IF query = "ShortestPath" THEN ShortestPath(g, ItemToFile(g, ord), args[1], args[2])
    ELSE IF query = "CycleDetection" THEN CycleDetection(g, ItemToFile(g, ord))
    ELSE IF query = "UnreferencedItems" THEN UnreferencedItems(g, ord, args[1])
    ELSE IF query = "ConnectedFiles" THEN ConnectedFiles(g, ItemToFile(g, ord), args[1])
    ELSE IF query = "FunctionUsage"
    THEN FunctionUsage(g, ItemToFile(g, ord), args[1], args[2])
    ELSE IF query = "Hubs" THEN Hubs(g, ItemToFile(g, ord), args[1], args[2])
    ELSE ModuleCentrality(g, ItemToFile(g, ord), args[1], args[2])

\* The lists with the same relationships in another order.
Reorderings(rels) ==
    {[i \in 1..Len(rels) |-> rels[perm[i]]] : perm \in Orders(1..Len(rels))}

\* C18: every query output is deterministic: on a graph with the same files
\* and the same relationships in any order of the relationship list and any
\* iteration order of the maps, the query that was answered returns the same
\* result, element for element.
C18_QueryOutputsDeterministic ==
    answer.query # "none" =>
        \A rels \in Reorderings(graph.relationships), ord \in Orders(DOMAIN graph.files) :
            QueryResult([graph EXCEPT !.relationships = rels], ord,
                        answer.query, answer.args) = answer.result

\* Some relationship has one endpoint among the items of t and the other
\* among the items of f.
Touching(t, f) ==
    \E r \in SeqToSet(graph.relationships) :
        \/ r.from_item \in ItemIdsOf(graph, t) /\ r.to_item \in ItemIdsOf(graph, f)
        \/ r.to_item \in ItemIdsOf(graph, t) /\ r.from_item \in ItemIdsOf(graph, f)

\* C21: ConnectedFiles(t) is empty when t is no file of the graph; otherwise
\* it lists, in path order and once each, exactly the files f other than t
\* such that some relationship joins an item of t and an item of f; so the
\* relation is symmetric: f is in ConnectedFiles(t) exactly when t is in
\* ConnectedFiles(f).
C21_ConnectedFilesExact ==
    answer.query = "ConnectedFiles" =>
        LET t == answer.args[1]
            res == answer.result
        IN  /\ t \notin DOMAIN graph.files => res = <<>>
            /\ t \in DOMAIN graph.files =>
                   SeqToSet(res) = {f \in DOMAIN graph.files \ {t} : Touching(t, f)}
            /\ \A i, j \in 1..Len(res) : i < j => PathRank(res[i]) < PathRank(res[j])
            /\ \A f \in DOMAIN graph.files :
                   f \in SeqToSet(res) <=>
                       t \in SeqToSet(ConnectedFiles(graph, answer.owner, f))

\* The sum of column k of the rows.
RECURSIVE SumColumn(_, _)
SumColumn(rows, k) ==
    IF rows = <<>> THEN 0 ELSE Head(rows)[k] + SumColumn(Tail(rows), k)

\* C22: every row of Hubs gives the in-degree and the out-degree of its file
\* in the file-level projection, where several relationships between the
\* same ordered pair of different files are one edge and self-loops are
\* dropped; when every file is reported, each file has one row and the
\* in-degrees add up to the same as the out-degrees.
C22_HubsDegreesOfProjection ==
    answer.query = "Hubs" =>
        LET E == Projection(RelationshipTypes)
            rows == answer.result
        IN  /\ \A k \in 1..Len(rows) :
                   /\ rows[k][2] = Cardinality({e \in E : e[2] = rows[k][1]})
                   /\ rows[k][3] = Cardinality({e \in E : e[1] = rows[k][1]})
            /\ answer.args[2] >= Cardinality(DOMAIN graph.files) =>
                   /\ {rows[k][1] : k \in 1..Len(rows)} = DOMAIN graph.files
                   /\ Len(rows) = Cardinality(DOMAIN graph.files)
                   /\ SumColumn(rows, 2) = SumColumn(rows, 3)

\* C23: save_json followed by load_json gives a graph with the files, the
\* relationships, module_parent, module_children and module_segments of the
\* saved graph, and with import_segments equal to those of the saved graph.
C23_JsonRoundTrip ==
    [][pc' = "reloaded" =>
          /\ graph'.files = graph.files
          /\ graph'.relationships = graph.relationships
          /\ graph'.module_parent = graph.module_parent
          /\ graph'.module_children = graph.module_children
          /\ graph'.module_segments = graph.module_segments
          /\ graph'.import_segments = graph.import_segments]_vars

C25_StatFailureIsStale ==
    pc \in {"parse", "analyze", "save", "done"} =>
        \A f \in SeqToSet(Discover(fs)) :
            fs[f].fault = "stat" =>
                /\ f \notin SeqToSet(reused)
                /\ f \in SeqToSet(to_parse)

\* C26: a build of valid UTF-8 files, multi-byte characters anywhere, ends
\* with Ok(graph) or with one error value; the calls pass never aborts it, and
\* a file it cannot read contributes no Calls edge.
C26_BuildEndsWithOkOrError ==
    pc = "done" =>
        /\ outcome.tag \in {"Ok", "Io", "ParseError"}
        /\ outcome.tag = "Ok" =>
               \A p \in DOMAIN graph.files :
                   ~CanRead(fs, p) =>
                       \A i \in 1..Len(graph.relationships) :
                           ~ (/\ graph.relationships[i].rtype = "Calls"
                              /\ graph.relationships[i].from_item = FileId(p))

C28_FailedBuildLeavesCacheFile ==
    (pc = "done" /\ outcome.tag \in {"Io", "ParseError"}) =>
        disk = CacheFileAtStart(mode, via, disk0)

\* A failed build that found a cache file, read another stale file with
\* success and held a cache in memory that differs from the file.
C28_Witness ==
    /\ pc = "done"
    /\ outcome.tag \in {"Io", "ParseError"}
    /\ disk0.status = "valid"
    /\ disk.status = "valid"
    /\ read_log # {}
    /\ cache_state.entries # disk.entries

\* C29: in a graph a build returned, every relationship starts at the
\* file-level module item of one of the files, and no two Calls edges have the
\* same from_item and to_item.
C29_EdgesStartAtFileItems ==
    BuiltOk =>
        /\ \A i \in 1..Len(graph.relationships) :
               \E p \in DOMAIN graph.files :
                   /\ graph.relationships[i].from_item = FileId(p)
                   /\ graph.relationships[i].from_item = graph.files[p].items[1].id
                   /\ graph.files[p].items[1].item_type.tag = "Module"
        /\ \A i, j \in 1..Len(graph.relationships) :
               (/\ i < j
                /\ graph.relationships[i].rtype = "Calls"
                /\ graph.relationships[j].rtype = "Calls"
                /\ graph.relationships[i].from_item = graph.relationships[j].from_item)
               => graph.relationships[i].to_item # graph.relationships[j].to_item

\* A built graph with a file_contains, a module_contains, a Uses and a Calls
\* edge, one of its files taken from the cache.
C29_Witness ==
    /\ BuiltOk
    /\ reused # <<>>
    /\ \A k \in {"file_contains", "module_contains", "import-item", "heuristic"} :
           \E i \in 1..Len(graph.relationships) : graph.relationships[i].sub = k

\* C30: in a built graph the to_item of every Calls edge, path or heuristic,
\* is the id of an item of type Function and of no item of another type; a
\* qualified chain makes no Calls edge to a struct, an enum or a file item.
C30_CallsTargetFunctions ==
    BuiltOk =>
        \A i \in 1..Len(graph.relationships) :
            graph.relationships[i].rtype = "Calls" =>
                /\ \E p \in DOMAIN graph.files : \E k \in 1..Len(graph.files[p].items) :
                       /\ graph.files[p].items[k].id = graph.relationships[i].to_item
                       /\ graph.files[p].items[k].item_type.tag = "Function"
                /\ \A p \in DOMAIN graph.files : \A k \in 1..Len(graph.files[p].items) :
                       graph.files[p].items[k].id = graph.relationships[i].to_item
                           => graph.files[p].items[k].item_type.tag = "Function"
====
